---- MODULE Spec2Model ----
(***************************************************************************)
(* Model of the bulk-automation jobs of ikc-bulk-guru:                     *)
(*   bulk_assign_project.py  reference-data cache and column assignment    *)
(*   bulk_dq_rules.py        data-quality definitions and rules            *)
(*   create_projects.py      project and collaborator provisioning         *)
(*   create_users.py         user creation                                 *)
(*   export_artifacts.py     export of the published artifacts             *)
(*   cpd_client.py           the authenticating HTTP client                *)
(* Every HTTP request of the code is one step of the model.  The remote    *)
(* platform is the environment: it answers each request with a success or  *)
(* a non-success status and with data taken from its own state.            *)
(***************************************************************************)
EXTENDS Integers, Sequences, FiniteSets, TLC

VARIABLES
    job,              \* which script is running
    pc,               \* position of the script
    row_num,          \* number of CSV rows read so far
    row,              \* the CSV row being processed
    result_row,       \* the result record of the row being processed
    results_data,     \* results_data of the running job
    calls,            \* requests and stage outcomes of the current row, in order
    \* ---- bulk_assign_project.py: reference-data cache
    srv_size,         \* per artifact type: number of published records on the server
    artifact_cache,   \* _artifact_cache: dict from artifact type to list of records
    load_type,        \* artifact_type argument of the running _load_artifacts
    offset,           \* local offset of the running _load_artifacts
    all_results,      \* local all_results of the running _load_artifacts
    searches,         \* per artifact type: number of client.search requests sent
    load_failed,      \* artifact types whose load met a non-success page
    last_call,        \* the most recent cache API call and what it returned
    preload_idx,      \* index into artifact_types of preload_all_artifacts
    \* ---- bulk_assign_project.py: column assignment
    asset_id,         \* asset_id resolved for the current row
    column_data,      \* column_data built for the current row
    operations,       \* operations list of the running updateColumnInfoBulk
    srv_column_info,  \* entity.column_info of the asset on the server
    \* ---- bulk_dq_rules.py
    dimensions_cache, \* _dimensions_cache
    definitions_cache,\* _definitions_cache
    srv_definitions,  \* the definitions of the project on the server, in order
    all_definitions,  \* local all_definitions of the running get_all_definitions
    start_token,      \* local start_token of the running get_all_definitions
    defs_ret,         \* where the running get_all_definitions returns to
    dimension_id,     \* dimension_id of the current row
    column_names,     \* column_names parsed for the current row
    col_idx,          \* position of the validation loop in column_names
    invalid_columns,  \* invalid_columns of the current row
    definition_id,    \* definition_id of the current row
    created,          \* the definitions this run created, with the row that did
    \* ---- create_projects.py
    srv_projects,     \* the projects on the server: name -> member records
    project_id,       \* project_id of the current row
    collaborator_list,\* collaborator_list parsed from the current row
    user_idx,         \* position of the validation loop in collaborator_list
    valid_collaborators, \* valid_collaborators of the current row
    new_collaborators,\* new_collaborators of the current row
    \* ---- cpd_client.py
    authenticated,    \* _authenticated of the client in use
    tokens,           \* number of tokens the process has obtained
    auth_failed,      \* a token request of the process has failed
    \* ---- create_users.py
    user_results,     \* the records of results_data of create_users.py
    summary,          \* the counts main prints after the results file
    auth_error,       \* a ConnectionError of authenticate is being raised
    settings,         \* the settings the environment holds for the client
    PROJECT_ID        \* whether the environment holds PROJECT_ID

cache_vars == <<srv_size, artifact_cache, load_type, offset, all_results,
                searches, load_failed, last_call, preload_idx>>
row_vars == <<row_num, row, result_row, results_data, calls>>
assign_vars == <<asset_id, column_data, operations, srv_column_info>>
dq_vars == <<dimensions_cache, definitions_cache, srv_definitions,
             all_definitions, start_token, defs_ret, dimension_id,
             column_names, col_idx, invalid_columns, definition_id, created>>
proj_vars == <<srv_projects, project_id, collaborator_list, user_idx,
               valid_collaborators, new_collaborators>>
client_vars == <<authenticated, tokens, auth_failed, auth_error>>
env_vars == <<settings, PROJECT_ID>>
user_vars == <<user_results, summary>>
vars == <<job, pc, row_vars, cache_vars, assign_vars, dq_vars, proj_vars,
          client_vars, env_vars, user_vars>>

\* ------------------------------------------------------------------ bounds
MaxRecords == 3       \* most records of one artifact type held by the server
MaxRows == 2          \* most CSV rows of one run
JobRecords == 1       \* most records of one artifact type in a run of a job
MaxLen == 4           \* most symbols of a string handed to a parsing function
MaxEntries == 2       \* most entries of a record handed to flatten_record

\* ------------------------------------------------------- program constants
\* batch_size of _load_artifacts (10000 in the source, scaled to 2 so that a
\* load takes several pages within MaxRecords)
batch_size == 2
\* batch_size of users_with_roles (100 in the source, scaled to 2)
users_batch_size == 2

ArtifactTypes == <<"glossary_term", "classification", "data_class">>
TypeSet == {ArtifactTypes[k] : k \in 1..Len(ArtifactTypes)}
\* the kinds of records the server lists: the artifact types and the users
ServerTypes == ArtifactTypes \o <<"reference_data", "user">>
ServerTypeSet == {ServerTypes[k] : k \in 1..Len(ServerTypes)}
TypeIdx(t) == CHOOSE k \in 1..Len(ServerTypes) : ServerTypes[k] = t

None == <<>>          \* the None a lookup returns instead of a pair of ids
NoId == 0             \* an id that is None or empty (falsy in the source)
NoType == "no_type"
NoRow == [none |-> TRUE]

Min(a, b) == IF a < b THEN a ELSE b

\* ----------------------------------------------------------- the server
\* The i-th published record of a type in server order.  Records 1 and 3 share
\* name and category, record 2 has the same name under another category.
ServerRecord(t, i) ==
    [name |-> "pii",
     primary_category_name |-> IF i % 3 = 2 THEN "fin" ELSE "gov",
     global_id |-> 100 * TypeIdx(t) + i,
     artifact_id |-> 1000 * TypeIdx(t) + i]

ServerRecords(t) == [i \in 1..srv_size[t] |-> ServerRecord(t, i)]

\* The rows of a search response: k records starting at offset from.
SearchRows(t, from, k) == [j \in 1..k |-> ServerRecord(t, from + j)]

\* Run lengths the server may answer with at offset from for the given size:
\* nothing past the end, otherwise a non-empty run of at most size records.
RunLengths(t, from, size) ==
    IF from >= srv_size[t] THEN {0}
    ELSE 1..Min(size, srv_size[t] - from)

\* ------------------------------------------------- _load_artifacts, lookup
AfterLoad == IF job = "cache" THEN "idle" ELSE "preload"

\* _load_artifacts, lines 17-24: return at once when the type is cached,
\* otherwise enter the paging loop.
load_artifacts_wrong(t) ==
    /\ load_type' = t
    /\ offset' = 0
    /\ all_results' = <<>>
    /\ pc' = "load"
    /\ last_call' = <<"load", t, "fetch">>
    /\ UNCHANGED <<artifact_cache, searches, load_failed>>

load_artifacts(t) ==
    IF t \in DOMAIN artifact_cache
    THEN /\ last_call' = <<"load", t, "cached">>
         /\ pc' = AfterLoad
         /\ UNCHANGED <<artifact_cache, load_type, offset, all_results,
                        searches, load_failed>>
    ELSE /\ load_type' = t
         /\ offset' = 0
         /\ all_results' = <<>>
         /\ pc' = "load"
         /\ last_call' = <<"load", t, "fetch">>
         /\ UNCHANGED <<artifact_cache, searches, load_failed>>

\* Lines 65-66: store the accumulated list and return.
StoreAndReturn(t, acc) ==
    /\ artifact_cache' = (t :> acc) @@ artifact_cache
    /\ load_type' = NoType
    /\ offset' = 0
    /\ all_results' = <<>>
    /\ pc' = AfterLoad

\* One iteration of the paging loop whose request is answered with a
\* non-success status (lines 46-49, then 65).
LoadPageErrorDropsRows ==
    /\ pc = "load"
    /\ authenticated
    /\ searches' = [searches EXCEPT ![load_type] = @ + 1]
    /\ load_failed' = load_failed \cup {load_type}
    /\ last_call' = <<"search", load_type, offset, 500>>
    /\ StoreAndReturn(load_type, <<>>)
    /\ UNCHANGED <<srv_size, preload_idx, job, env_vars, user_vars, client_vars, row_vars, assign_vars, dq_vars, proj_vars>>

LoadPageError ==
    /\ pc = "load"
    /\ authenticated
    /\ searches' = [searches EXCEPT ![load_type] = @ + 1]
    /\ load_failed' = load_failed \cup {load_type}
    /\ last_call' = <<"search", load_type, offset, 500>>
    /\ StoreAndReturn(load_type, all_results)
    /\ UNCHANGED <<srv_size, preload_idx, job, env_vars, user_vars, client_vars, row_vars, assign_vars, dq_vars, proj_vars>>

\* One iteration of the paging loop whose request succeeds (lines 46-63).
LoadPageOk ==
    /\ pc = "load"
    /\ authenticated
    /\ \E k \in RunLengths(load_type, offset, batch_size) :
         LET rows == SearchRows(load_type, offset, k)
             total_hits == srv_size[load_type]
             acc == all_results \o rows
         IN  /\ searches' = [searches EXCEPT ![load_type] = @ + 1]
             /\ last_call' = <<"search", load_type, offset, 200>>
             /\ IF rows = <<>>
                THEN StoreAndReturn(load_type, all_results)
                ELSE IF offset + Len(rows) >= total_hits
                THEN StoreAndReturn(load_type, acc)
                ELSE /\ all_results' = acc
                     /\ offset' = offset + batch_size
                     /\ UNCHANGED <<artifact_cache, load_type, pc>>
    /\ UNCHANGED <<srv_size, load_failed, preload_idx, job, env_vars, user_vars, client_vars, row_vars,
                   assign_vars, dq_vars, proj_vars>>

\* lookup_by_name_and_category, lines 69-84: linear scan, first match wins.
RECURSIVE ScanLastMatch(_, _, _, _)
ScanLastMatch(list, i, name, primary_category) ==
    IF i < 1 THEN None
    ELSE IF list[i].name = name
            /\ list[i].primary_category_name = primary_category
         THEN <<list[i].global_id, list[i].artifact_id>>
         ELSE ScanLastMatch(list, i - 1, name, primary_category)

RECURSIVE Scan(_, _, _, _)
Scan(list, i, name, primary_category) ==
    IF i > Len(list) THEN None
    ELSE IF list[i].name = name
            /\ list[i].primary_category_name = primary_category
         THEN <<list[i].global_id, list[i].artifact_id>>
         ELSE Scan(list, i + 1, name, primary_category)

lookup_last_match(artifact_type, name, primary_category) ==
    ScanLastMatch(artifact_cache[artifact_type],
                  Len(artifact_cache[artifact_type]), name, primary_category)

lookup_by_name_and_category(artifact_type, name, primary_category) ==
    Scan(artifact_cache[artifact_type], 1, name, primary_category)

\* get_term_id, get_classification_id, get_data_class_id (lines 87-111)
get_term_id(primary_category, term_name) ==
    LET result == lookup_by_name_and_category("glossary_term", term_name,
                                              primary_category)
    IN  IF result # None THEN result[1] ELSE NoId

get_classification_id(primary_category, classification_name) ==
    LET result == lookup_by_name_and_category("classification",
                                              classification_name,
                                              primary_category)
    IN  IF result # None THEN <<result[2], result[1]>> ELSE <<NoId, NoId>>

get_data_class_id(primary_category, data_class_name) ==
    LET result == lookup_by_name_and_category("data_class", data_class_name,
                                              primary_category)
    IN  IF result # None THEN result[1] ELSE NoId

\* ------------------------------------------ callers of the cache functions
LookupNames == {"pii", "PII"}
LookupCategories == {"gov", "fin"}

\* A caller of the module calls _load_artifacts(t).
CallLoad ==
    /\ job = "cache"
    /\ pc = "idle"
    /\ \E t \in TypeSet : load_artifacts(t)
    /\ UNCHANGED <<srv_size, preload_idx, job, env_vars, user_vars, client_vars, row_vars, assign_vars, dq_vars, proj_vars>>

\* A caller looks a name up in a loaded type.
CallLookup ==
    /\ job = "cache"
    /\ pc = "idle"
    /\ \E t \in DOMAIN artifact_cache, n \in LookupNames, c \in LookupCategories :
         last_call' = <<"lookup", t, n, c, lookup_by_name_and_category(t, n, c)>>
    /\ UNCHANGED <<job, env_vars, user_vars, client_vars, pc, row_vars, srv_size, artifact_cache, load_type,
                   offset, all_results, searches, load_failed, preload_idx,
                   assign_vars, dq_vars, proj_vars>>

CacheInit(maxsize) ==
    /\ \E n \in 0..maxsize : srv_size = [t \in ServerTypeSet |-> n]
    /\ artifact_cache = <<>>
    /\ load_type = NoType
    /\ offset = 0
    /\ all_results = <<>>
    /\ searches = [t \in TypeSet |-> 0]
    /\ load_failed = {}
    /\ last_call = <<"none">>
    /\ preload_idx = 1

RowInit ==
    /\ row_num = 0
    /\ row = NoRow
    /\ result_row = NoRow
    /\ results_data = <<>>
    /\ calls = <<>>

\* =================================================== bulk_assign_project.py
\* ---- the project on the server
AssetNames == {"orders", "ghost", "twins"}
\* number of data assets of the project with the given name
AssetCount(name) ==
    IF name = "orders" THEN 1 ELSE IF name = "twins" THEN 2 ELSE 0
AssetId(name) == "asset_" \o name
\* entity.data_asset.columns of the asset "orders"
AssetColumns == {"id", "amt"}

Strip(s) == IF s = " " THEN "" ELSE s

NoFacet == <<"", "">>
AssignRow(asset, column, description, term, classification, data_class) ==
    [len |-> 9, asset_name |-> asset, column_name |-> column,
     column_description |-> description, term |-> term,
     classification |-> classification, data_class |-> data_class]
\* The rows of the input file: every combination of facets on a column of
\* the one asset named "orders", a column the asset does not have, and the
\* names of a missing and of a duplicated asset.
AssignRows ==
    {AssignRow("orders", "id", d, t, c, dc) :
        d \in {"", "d"},
        t \in {NoFacet, <<"pii", "gov">>, <<"pii", "">>, <<"PII", "gov">>},
        c \in {NoFacet, <<"pii", "gov">>},
        dc \in {NoFacet, <<"pii", "fin">>}}
    \cup {AssignRow("orders", "zz", "d", <<"pii", "gov">>, NoFacet, NoFacet),
          AssignRow("ghost", "id", "d", <<"pii", "gov">>, NoFacet, NoFacet),
          AssignRow("twins", "id", "d", <<"pii", "gov">>, NoFacet, NoFacet)}
ShortRow == [len |-> 8]

\* result_row as initialised at lines 364-375
NewResultRow(n) ==
    [row_number |-> n,
     description_result |-> "",
     term_result |-> "",
     classification_result |-> "",
     data_class_result |-> "",
     asset_update_status |-> ""]

AllError(r, msg) ==
    [r EXCEPT !.description_result = msg,
              !.term_result = msg,
              !.classification_result = msg,
              !.data_class_result = msg,
              !.asset_update_status = msg]

Log(event) == calls' = Append(calls, event)

\* results_data.append(result_row) and back to the top of the for loop.
\* result_row holds the whole record of the row just finished; of the rows
\* before it results_data keeps the row number, in order of appending.
AppendResult_lost(r) ==
    /\ result_row' = r
    /\ results_data' = results_data
    /\ pc' = "rows"

AppendResult(r) ==
    /\ result_row' = r
    /\ results_data' = Append(results_data, r.row_number)
    /\ pc' = "rows"

\* preload_all_artifacts, lines 310-319
Preload ==
    /\ job = "assign"
    /\ pc = "preload"
    /\ IF preload_idx <= Len(ArtifactTypes)
       THEN /\ load_artifacts(ArtifactTypes[preload_idx])
            /\ preload_idx' = preload_idx + 1
       ELSE /\ pc' = "rows"
            /\ UNCHANGED <<artifact_cache, load_type, offset, all_results,
                           searches, load_failed, last_call, preload_idx>>
    /\ UNCHANGED <<srv_size, job, env_vars, user_vars, client_vars, row_vars, assign_vars, dq_vars, proj_vars>>

\* The for loop of main reads the next row, lines 346-375.
AssignReadRow ==
    /\ job = "assign"
    /\ pc = "rows"
    /\ row_num < MaxRows
    /\ \E r \in AssignRows \cup {ShortRow} :
         /\ row' = r
         /\ row_num' = row_num + 1
         /\ calls' = <<>>
         /\ IF r.len < 9
            THEN UNCHANGED <<pc, result_row>>
            ELSE /\ pc' = "asset"
                 /\ result_row' = NewResultRow(row_num + 1)
    /\ asset_id' = ""
    /\ column_data' = <<>>
    /\ operations' = <<>>
    /\ UNCHANGED <<job, env_vars, user_vars, client_vars, results_data, cache_vars, srv_column_info, dq_vars, proj_vars>>

\* A status message is a sequence of symbols: its prefix and its detail.
Status(prefix, detail) == <<prefix, ":", detail>>
\* str.startswith(prefix)
StartsWith(status, prefix) == status # <<>> /\ status[1] = prefix

\* The summary statistics of create_users.py, lines 204-214.
NoSummary == [total_rows |-> 0, successful_creations |-> 0,
              existing_users |-> 0, failed_creations |-> 0]

\* creation_status == "SUCCESS", line 206
IsSuccess(status) == status = <<"SUCCESS">>

IsExisting(status) == StartsWith(status, "EXISTS")
IsFailed(status) == StartsWith(status, "ERROR")

\* sum(1 for r in results_data if ...), lines 206-208
Matching(results, statuses) ==
    Cardinality({i \in 1..Len(results) : results[i].creation_status \in statuses})

StatusesOf(results) == {results[i].creation_status : i \in 1..Len(results)}

Summary(results) ==
    [total_rows |-> Len(results),
     successful_creations |->
         Matching(results, {st \in StatusesOf(results) : IsSuccess(st)}),
     existing_users |->
         Matching(results, {st \in StatusesOf(results) : IsExisting(st)}),
     failed_creations |->
         Matching(results, {st \in StatusesOf(results) : IsFailed(st)})]

\* The reader is exhausted; create_users.py then prints its summary.
EndOfFile ==
    /\ pc = "rows"
    /\ pc' = "done"
    /\ summary' = IF job = "users" THEN Summary(user_results) ELSE summary
    /\ UNCHANGED <<job, env_vars, user_results, client_vars, row_vars,
                   cache_vars, assign_vars, dq_vars, proj_vars>>

\* getAssetByName, line 131: the search must report exactly one asset.
AssetUnique_any(total_rows) == total_rows >= 1

AssetUnique(total_rows) == total_rows = 1

\* getAssetByName, lines 114-133, with the handlers of lines 465-483
AssignGetAsset ==
    /\ job = "assign"
    /\ pc = "asset"
    /\ authenticated
    /\ \E status \in {200, 500} :
         LET total_rows == AssetCount(row.asset_name)
         IN  /\ Log(<<"asset_search", row.asset_name, status>>)
             /\ IF status # 200
                THEN /\ AppendResult(AllError(result_row, "ERROR: Processing error"))
                     /\ UNCHANGED asset_id
                ELSE IF ~AssetUnique(total_rows)
                THEN /\ AppendResult(AllError(result_row, "ERROR: Asset error"))
                     /\ UNCHANGED asset_id
                ELSE /\ asset_id' = AssetId(row.asset_name)
                     /\ pc' = "validate"
                     /\ UNCHANGED <<result_row, results_data>>
    /\ UNCHANGED <<job, env_vars, user_vars, client_vars, row_num, row, cache_vars, column_data, operations,
                   srv_column_info, dq_vars, proj_vars>>

\* validateColumn, lines 290-307
validateColumn(status, column_name) ==
    IF status # 200 THEN FALSE ELSE column_name \in AssetColumns

\* Lines 393-454: the column data and the facet results of a validated row.
DescriptionData(r) ==
    IF Strip(r.column_description) # ""
    THEN "description" :> Strip(r.column_description)
    ELSE <<>>

TermData(r) ==
    IF r.term[1] # "" /\ r.term[2] # ""
          /\ get_term_id(r.term[2], r.term[1]) # NoId
    THEN "column_terms" :> [term_display_name |-> r.term[1],
                            term_id |-> get_term_id(r.term[2], r.term[1])]
    ELSE <<>>

ClassificationData(r) ==
    LET ids == get_classification_id(r.classification[2], r.classification[1])
    IN  IF r.classification[1] # "" /\ r.classification[2] # ""
           /\ ids[1] # NoId /\ ids[2] # NoId
        THEN "column_classifications" :>
                 [id |-> ids[1], global_id |-> ids[2],
                  name |-> r.classification[1]]
        ELSE <<>>

DataClassData(r) ==
    IF r.data_class[1] # "" /\ r.data_class[2] # ""
          /\ get_data_class_id(r.data_class[2], r.data_class[1]) # NoId
    THEN "data_class" :>
             [id |-> get_data_class_id(r.data_class[2], r.data_class[1]),
              name |-> r.data_class[1]]
    ELSE <<>>

BuildColumnData_chained(r) ==
    IF DOMAIN TermData(r) = {} THEN DescriptionData(r)
    ELSE DescriptionData(r) @@ TermData(r) @@ ClassificationData(r)
         @@ DataClassData(r)

BuildColumnData(r) ==
    DescriptionData(r) @@ TermData(r) @@ ClassificationData(r) @@ DataClassData(r)

\* Line 457: the asset is updated only with a non-empty column_data.
HasAssignments_always(data) == TRUE

HasAssignments(data) == DOMAIN data # {}

FacetResult(facet, data, skipped) ==
    IF facet[1] # "" /\ facet[2] # ""
    THEN IF DOMAIN data # {} THEN "SUCCESS" ELSE "ERROR: not found"
    ELSE skipped

FacetResults(res, r) ==
    [res EXCEPT
       !.description_result =
           IF DOMAIN DescriptionData(r) # {} THEN "SUCCESS"
           ELSE "SKIPPED: No description data",
       !.term_result = FacetResult(r.term, TermData(r), "SKIPPED: No term data"),
       !.classification_result =
           FacetResult(r.classification, ClassificationData(r),
                       "SKIPPED: No classification data"),
       !.data_class_result =
           FacetResult(r.data_class, DataClassData(r),
                       "SKIPPED: No data class data")]

\* Lines 381-463: validate the column, resolve the facets, decide on the update.
AssignValidate ==
    /\ job = "assign"
    /\ pc = "validate"
    /\ authenticated
    /\ \E status \in {200, 500} :
         /\ Log(<<"validate", row.column_name, status>>)
         /\ IF ~validateColumn(status, row.column_name)
            THEN /\ AppendResult(AllError(result_row, "ERROR: Column not found in asset"))
                 /\ UNCHANGED column_data
            ELSE LET data == BuildColumnData(row)
                     res == FacetResults(result_row, row)
                 IN  /\ column_data' = data
                     /\ IF HasAssignments(data)
                        THEN /\ result_row' = res
                             /\ pc' = "probe1"
                             /\ UNCHANGED results_data
                        ELSE AppendResult(
                               [res EXCEPT !.asset_update_status =
                                   "WARNING: No valid assignments found"])
    /\ UNCHANGED <<job, env_vars, user_vars, client_vars, row_num, row, cache_vars, asset_id, operations,
                   srv_column_info, dq_vars, proj_vars>>

\* checkColumnInfoExists, lines 136-149
checkColumnInfoExists(status) ==
    IF status # 200 THEN FALSE ELSE srv_column_info.exists

\* checkSpecificColumnExists, lines 152-165
checkSpecificColumnExists(status, column_name) ==
    IF status # 200 THEN FALSE ELSE column_name \in srv_column_info.columns

\* The three shapes of the operations list, lines 176-238.
CreateContainerOps(column_name, data) ==
    <<[op |-> "add", path |-> <<"entity", "column_info">>,
       value |-> (column_name :> data)]>>

CreateFieldOps(column_name, data) ==
    <<[op |-> "add", path |-> <<"entity", "column_info", column_name>>,
       value |-> data]>>

AttributeOrder ==
    <<"description", "column_terms", "column_classifications", "data_class">>
AttributePath(attr) == IF attr = "description" THEN "column_description" ELSE attr

RECURSIVE UpdateOps(_, _, _)
UpdateOps(column_name, data, i) ==
    IF i > Len(AttributeOrder) THEN <<>>
    ELSE (IF AttributeOrder[i] \in DOMAIN data
          THEN <<[op |-> "add",
                  path |-> <<"entity", "column_info", column_name,
                             AttributePath(AttributeOrder[i])>>,
                  value |-> data[AttributeOrder[i]]]>>
          ELSE <<>>)
         \o UpdateOps(column_name, data, i + 1)

\* updateColumnInfoBulk up to its first branch, lines 173-187
AssignProbeColumnInfo ==
    /\ job = "assign"
    /\ pc = "probe1"
    /\ authenticated
    /\ \E status \in {200, 500} :
         /\ Log(<<"probe_column_info", status, srv_column_info>>)
         /\ IF ~checkColumnInfoExists(status)
            THEN /\ operations' = CreateContainerOps(row.column_name, column_data)
                 /\ pc' = "patch"
            ELSE /\ pc' = "probe2"
                 /\ UNCHANGED operations
    /\ UNCHANGED <<job, env_vars, user_vars, client_vars, row_num, row, result_row, results_data, cache_vars,
                   asset_id, column_data, srv_column_info, dq_vars, proj_vars>>

\* updateColumnInfoBulk, lines 189-238
AssignProbeColumn ==
    /\ job = "assign"
    /\ pc = "probe2"
    /\ authenticated
    /\ \E status \in {200, 500} :
         /\ Log(<<"probe_column", status, srv_column_info>>)
         /\ operations' =
              IF ~checkSpecificColumnExists(status, row.column_name)
              THEN CreateFieldOps(row.column_name, column_data)
              ELSE UpdateOps(row.column_name, column_data, 1)
         /\ pc' = "patch"
    /\ UNCHANGED <<job, env_vars, user_vars, client_vars, row_num, row, result_row, results_data, cache_vars,
                   asset_id, column_data, srv_column_info, dq_vars, proj_vars>>

\* What an accepted operations list does to column_info on the server.
RECURSIVE ApplyOps(_, _)
ApplyOps(info, ops) ==
    IF ops = <<>> THEN info
    ELSE LET o == Head(ops)
             after ==
               IF Len(o.path) = 2
               THEN [exists |-> TRUE, columns |-> DOMAIN o.value]
               ELSE [exists |-> TRUE, columns |-> info.columns \cup {o.path[3]}]
         IN  ApplyOps(after, Tail(ops))

\* The outcomes of the bulk patch request, lines 250-287.
PatchOutcomes ==
    {[http |-> 200, resource |-> 200],    \* accepted
     [http |-> 200, resource |-> 400],    \* the resource is rejected
     [http |-> 200, resource |-> 0],      \* no resources in the response
     [http |-> 500, resource |-> 0]}

UpdateStatus(out) ==
    IF out.http = 200
    THEN IF out.resource = 0 THEN "ERROR: No resources in response"
         ELSE IF out.resource = 200 THEN "SUCCESS"
         ELSE "ERROR: Status"
    ELSE "ERROR: HTTP"

\* updateColumnInfoBulk returns its status whatever the request met, lines
\* 254-287; main stores it and appends the row, lines 459-460 and 483.
ReturnStatus_retrying(out, r) ==
    IF out.http = 200 THEN AppendResult(r)
    ELSE UNCHANGED <<result_row, results_data, pc>>

ReturnStatus(out, r) == AppendResult(r)

\* updateColumnInfoBulk, lines 240-287, and lines 459-460, 483 of main
AssignBulkPatch ==
    /\ job = "assign"
    /\ pc = "patch"
    /\ authenticated
    /\ \E out \in PatchOutcomes :
         /\ Log(<<"bulk_patch", operations, out.http, srv_column_info>>)
         /\ srv_column_info' =
              IF out.http = 200 /\ out.resource = 200
              THEN ApplyOps(srv_column_info, operations)
              ELSE srv_column_info
         /\ ReturnStatus(out, [result_row EXCEPT
                                  !.asset_update_status = UpdateStatus(out)])
    /\ UNCHANGED <<job, env_vars, user_vars, client_vars, row_num, row, cache_vars, asset_id, column_data,
                   operations, dq_vars, proj_vars>>

AssignInit ==
    /\ asset_id = ""
    /\ column_data = <<>>
    /\ operations = <<>>
    /\ srv_column_info \in {[exists |-> FALSE, columns |-> {}],
                            [exists |-> TRUE, columns |-> {"amt"}],
                            [exists |-> TRUE, columns |-> {"id", "amt"}]}

AssignIdle ==
    /\ asset_id = ""
    /\ column_data = <<>>
    /\ operations = <<>>
    /\ srv_column_info = [exists |-> FALSE, columns |-> {}]

\* ========================================================= bulk_dq_rules.py
\* Strings that the code takes apart are sequences of symbols: a name is one
\* symbol, a separator or a blank is one symbol.
Blank == " "
RECURSIVE StripSeq(_)
StripSeq(s) ==
    IF s = <<>> THEN s
    ELSE IF Head(s) = Blank THEN StripSeq(Tail(s))
    ELSE IF s[Len(s)] = Blank THEN StripSeq(SubSeq(s, 1, Len(s) - 1))
    ELSE s

\* str.replace(old, new) for one-symbol old and new
ReplaceSym(s, old, new) == [i \in 1..Len(s) |-> IF s[i] = old THEN new ELSE s[i]]

\* str.split(sep): the pieces between the separators, empty pieces included
RECURSIVE SplitSeq(_, _)
SplitSeq(s, sep) ==
    IF \A i \in 1..Len(s) : s[i] # sep THEN <<s>>
    ELSE LET i == CHOOSE j \in 1..Len(s) :
                     s[j] = sep /\ \A k \in 1..(j - 1) : s[k] # sep
         IN  <<SubSeq(s, 1, i - 1)>> \o SplitSeq(SubSeq(s, i + 1, Len(s)), sep)

StripAll(pieces) == [i \in 1..Len(pieces) |-> StripSeq(pieces[i])]
NonEmpty(piece) == piece # <<>>

\* parse_bound_expressions, lines 179-195
parse_bound_expressions(bound_expr) ==
    LET expr == StripSeq(bound_expr)
        replaced == ReplaceSym(ReplaceSym(ReplaceSym(expr, "+", ","), "|", ","),
                               ";", ",")
    IN  IF expr = <<>> THEN <<>>
        ELSE SelectSeq(StripAll(SplitSeq(replaced, ",")), NonEmpty)

\* str.lower() on the names of the model
Lower(s) ==
    IF s \in {"Valid", "VALID"} THEN "valid"
    ELSE IF s = "NN" THEN "nn"
    ELSE IF s = "PII" THEN "pii"
    ELSE s

\* ---- the data-quality service on the server
SrvDimensions == <<[id |-> 71, name |-> "Valid"], [id |-> 72, name |-> "VALID"]>>
Definition(id, name) == [id |-> id, name |-> name]
\* limit of get_all_definitions (200 in the source, scaled to 2 so that the
\* list of definitions takes more than one page)
defs_limit == 2

\* names of the columns of the asset, as parse_bound_expressions returns them
DqAssetColumns == {<<c>> : c \in AssetColumns}

NotLoaded == [loaded |-> FALSE, list |-> <<>>]
Loaded(list) == [loaded |-> TRUE, list |-> list]

\* get_dimension_by_name, get_dimension_id_by_name, lines 52-72
RECURSIVE ScanDimension(_, _, _)
ScanDimension(dimensions, i, dimension_name) ==
    IF i > Len(dimensions) THEN NoId
    ELSE IF Lower(dimensions[i].name) = Lower(dimension_name) THEN dimensions[i].id
    ELSE ScanDimension(dimensions, i + 1, dimension_name)

get_dimension_id_exact(dimensions, dimension_name) ==
    LET m == {i \in 1..Len(dimensions) : dimensions[i].name = dimension_name}
    IN  IF m = {} THEN NoId
        ELSE dimensions[CHOOSE i \in m : \A j \in m : i <= j].id

get_dimension_id_by_name(dimensions, dimension_name) ==
    ScanDimension(dimensions, 1, dimension_name)

\* get_definition_by_name, lines 124-135, applied to the list that
\* get_all_definitions returned; the id of the first match or NoId
RECURSIVE ScanDefinition(_, _, _)
ScanDefinition(definitions, i, definition_name) ==
    IF i > Len(definitions) THEN NoId
    ELSE IF definitions[i].name = definition_name THEN definitions[i].id
    ELSE ScanDefinition(definitions, i + 1, definition_name)

get_definition_by_name(definitions, definition_name) ==
    ScanDefinition(definitions, 1, definition_name)

DqRow(dimension, definition, asset, fields) ==
    [len |-> 7, dimension_name |-> dimension, definition_name |-> definition,
     asset_name |-> asset, fields |-> fields]
\* The rows of the input file: every definition name and field expression on
\* the asset "orders" under a known dimension, an unknown dimension, a
\* missing asset and a duplicated asset.
DqRows ==
    {DqRow("valid", n, "orders", f) :
        n \in {"nn", "NN"},
        f \in {<<"id">>, <<"id", "+", "amt">>, <<"zz", ";", Blank, "id">>, <<>>,
                <<"amt", "|", "id", "+", "amt">>}}
    \cup {DqRow("none", "nn", "orders", <<"id">>),
          DqRow("valid", "nn", "ghost", <<"id">>),
          DqRow("valid", "nn", "twins", <<"id">>)}
DqShortRow == [len |-> 6]

\* fields = row[6].strip() and parse_bound_expressions(fields), lines 516 and
\* 551, for every fields entry a row can hold
ColumnNamesOf ==
    [f \in {r.fields : r \in DqRows} |-> parse_bound_expressions(StripSeq(f))]

\* result_row as initialised at lines 521-533
DqNewResultRow(n) ==
    [row_number |-> n, definition_status |-> "", definition_id |-> NoId,
     rule_status |-> ""]

BothError(r, msg) == [r EXCEPT !.definition_status = msg, !.rule_status = msg]

DqAppendResult(r) ==
    /\ result_row' = r
    /\ results_data' = Append(results_data, r.row_number)
    /\ pc' = "rows"

\* get_data_quality_dimensions, lines 22-49: the statuses the request may
\* get (0: the cache is loaded and no request is sent), the list returned
\* and the cache afterwards.
DimensionStatuses == IF dimensions_cache.loaded THEN {0} ELSE {200, 500}
DimensionsReturned(status) ==
    IF dimensions_cache.loaded THEN dimensions_cache.list
    ELSE IF status = 200 THEN SrvDimensions ELSE <<>>
DimensionsCacheAfter(status) ==
    IF ~dimensions_cache.loaded /\ status = 200 THEN Loaded(SrvDimensions)
    ELSE dimensions_cache

\* The two preloads of the dimensions: main_dq_rules line 691 and
\* process_dq_rules_csv line 496.
DqPreloadDimensions ==
    /\ job = "dq"
    /\ pc \in {"dq_main_dims", "dq_proc_dims"}
    /\ authenticated
    /\ \E status \in DimensionStatuses :
         dimensions_cache' = DimensionsCacheAfter(status)
    /\ pc' = IF pc = "dq_main_dims" THEN "dq_main_defs" ELSE "dq_proc_defs"
    /\ UNCHANGED <<job, env_vars, user_vars, client_vars, row_vars, cache_vars, proj_vars, assign_vars, definitions_cache,
                   srv_definitions, all_definitions, start_token, defs_ret,
                   dimension_id, column_names, col_idx, invalid_columns,
                   definition_id, created>>

\* The two preloads of the definitions (lines 692 and 497): get_all_definitions
\* returns the cache or enters its paging loop, lines 84-94.
DqPreloadDefinitions ==
    /\ job = "dq"
    /\ pc \in {"dq_main_defs", "dq_proc_defs"}
    /\ IF definitions_cache.loaded
       THEN /\ pc' = IF pc = "dq_main_defs" THEN "dq_proc_dims" ELSE "rows"
            /\ UNCHANGED <<all_definitions, start_token, defs_ret>>
       ELSE /\ pc' = "dq_defs_page"
            /\ all_definitions' = <<>>
            /\ start_token' = 0
            /\ defs_ret' = IF pc = "dq_main_defs" THEN "dq_proc_dims" ELSE "rows"
    /\ UNCHANGED <<job, env_vars, user_vars, client_vars, row_vars, cache_vars, proj_vars, assign_vars, dimensions_cache,
                   definitions_cache, srv_definitions, dimension_id,
                   column_names, col_idx, invalid_columns, definition_id,
                   created>>

\* get_or_create_dq_definition once get_definition_by_name has the list,
\* lines 274-283: the events of the request just made are logged with it.
DefinitionLookedUp(definitions, events) ==
    LET id == get_definition_by_name(definitions, row.definition_name)
    IN  IF id # NoId
        THEN /\ definition_id' = id
             /\ result_row' = [result_row EXCEPT
                                 !.definition_status = "SUCCESS - Found existing",
                                 !.definition_id = id]
             /\ calls' = calls \o events \o <<<<"definition", id, TRUE>>>>
             /\ pc' = "dq_rule"
        ELSE /\ calls' = calls \o events
             /\ pc' = "dq_create"
             /\ UNCHANGED <<definition_id, result_row>>

\* One iteration of the paging loop of get_all_definitions, lines 96-121,
\* and the return to the caller.
DefinitionsReturn(definitions, events) ==
    IF defs_ret = "dq_def"
    THEN DefinitionLookedUp(definitions, events)
    ELSE /\ pc' = defs_ret
         /\ UNCHANGED <<definition_id, result_row, calls>>

DqDefinitionsPage ==
    /\ job = "dq"
    /\ pc = "dq_defs_page"
    /\ authenticated
    /\ \E status \in {200, 500} :
         LET last == Min(start_token + defs_limit, Len(srv_definitions))
             definitions == SubSeq(srv_definitions, start_token + 1, last)
             acc == all_definitions \o definitions
             event == <<<<"definitions_list", status>>>>
         IN  IF status # 200
             THEN /\ DefinitionsReturn(<<>>, event)
                  /\ all_definitions' = <<>>
                  /\ start_token' = 0
                  /\ UNCHANGED definitions_cache
             ELSE IF last < Len(srv_definitions)
             THEN /\ all_definitions' = acc
                  /\ start_token' = last
                  /\ calls' = IF defs_ret = "dq_def" THEN calls \o event ELSE calls
                  /\ UNCHANGED <<pc, definitions_cache, definition_id, result_row>>
             ELSE /\ definitions_cache' = Loaded(acc)
                  /\ DefinitionsReturn(acc, event)
                  /\ all_definitions' = <<>>
                  /\ start_token' = 0
    /\ UNCHANGED <<job, env_vars, user_vars, client_vars, row_num, row, results_data, cache_vars, proj_vars, assign_vars,
                   dimensions_cache, srv_definitions, defs_ret, dimension_id,
                   column_names, col_idx, invalid_columns, created>>

\* The for loop of process_dq_rules_csv reads the next row, lines 505-533.
DqReadRow ==
    /\ job = "dq"
    /\ pc = "rows"
    /\ row_num < MaxRows
    /\ \E r \in DqRows \cup {DqShortRow} :
         /\ row' = r
         /\ row_num' = row_num + 1
         /\ calls' = <<>>
         /\ IF r.len < 7
            THEN UNCHANGED <<pc, result_row>>
            ELSE /\ pc' = "dq_dim"
                 /\ result_row' = DqNewResultRow(row_num + 1)
    /\ asset_id' = ""
    /\ dimension_id' = NoId
    /\ column_names' = <<>>
    /\ col_idx' = 0
    /\ invalid_columns' = <<>>
    /\ definition_id' = NoId
    /\ UNCHANGED <<job, env_vars, user_vars, client_vars, results_data, cache_vars, proj_vars, column_data, operations,
                   srv_column_info, dimensions_cache, definitions_cache,
                   srv_definitions, all_definitions, start_token, defs_ret,
                   created>>

\* Line 538: the row goes on only with a dimension id.
DimensionResolved_always(id) == TRUE

DimensionResolved(id) == id # NoId

\* Lines 536-545: resolve the dimension.
DqDimension ==
    /\ job = "dq"
    /\ pc = "dq_dim"
    /\ \E status \in DimensionStatuses :
         LET id == get_dimension_id_by_name(DimensionsReturned(status),
                                            row.dimension_name)
             request == IF status = 0 THEN <<>>
                        ELSE <<<<"dimensions_list", status>>>>
         IN  /\ dimensions_cache' = DimensionsCacheAfter(status)
             /\ calls' = calls \o request
                          \o <<<<"dimension", id, DimensionsReturned(status)>>>>
             /\ dimension_id' = id
             /\ IF ~DimensionResolved(id)
                THEN DqAppendResult(BothError(result_row, "ERROR: Dimension not found"))
                ELSE /\ pc' = "dq_asset"
                     /\ UNCHANGED <<result_row, results_data>>
    /\ UNCHANGED <<job, env_vars, user_vars, client_vars, row_num, row, cache_vars, proj_vars, assign_vars,
                   definitions_cache, srv_definitions, all_definitions,
                   start_token, defs_ret, column_names, col_idx,
                   invalid_columns, definition_id, created>>

\* getAssetByName, lines 138-157, then lines 550-559 and the handlers of
\* lines 611-625
DqGetAsset ==
    /\ job = "dq"
    /\ pc = "dq_asset"
    /\ authenticated
    /\ \E status \in {200, 500} :
         LET total_rows == AssetCount(row.asset_name)
             names == ColumnNamesOf[row.fields]
         IN  /\ Log(<<"asset_search", row.asset_name, status>>)
             /\ IF status # 200
                THEN /\ DqAppendResult(BothError(result_row, "ERROR: Processing error"))
                     /\ UNCHANGED <<asset_id, column_names, col_idx>>
                ELSE IF total_rows < 1
                THEN /\ DqAppendResult(BothError(result_row, "ERROR: Asset error"))
                     /\ UNCHANGED <<asset_id, column_names, col_idx>>
                ELSE /\ asset_id' = AssetId(row.asset_name)
                     /\ column_names' = names
                     /\ IF names = <<>>
                        THEN /\ DqAppendResult(BothError(result_row,
                                  "ERROR: No valid column names found"))
                             /\ UNCHANGED col_idx
                        ELSE /\ pc' = "dq_validate"
                             /\ col_idx' = 1
                             /\ UNCHANGED <<result_row, results_data>>
    /\ UNCHANGED <<job, env_vars, user_vars, client_vars, row_num, row, cache_vars, proj_vars, column_data, operations,
                   srv_column_info, dimensions_cache, definitions_cache,
                   srv_definitions, all_definitions, start_token, defs_ret,
                   dimension_id, invalid_columns, definition_id, created>>

\* validateColumn, lines 160-177
dq_validateColumn_trusting(status, column_name) ==
    IF status # 200 THEN TRUE ELSE column_name \in DqAssetColumns

dq_validateColumn(status, column_name) ==
    IF status # 200 THEN FALSE ELSE column_name \in DqAssetColumns

\* One iteration of the validation loop, lines 564-566, and after the last
\* one lines 568-577.
DqValidate ==
    /\ job = "dq"
    /\ pc = "dq_validate"
    /\ authenticated
    /\ \E status \in {200, 500} :
         LET column_name == column_names[col_idx]
             invalid == IF dq_validateColumn(status, column_name)
                        THEN invalid_columns
                        ELSE Append(invalid_columns, column_name)
         IN  /\ Log(<<"validate", column_name, status>>)
             /\ invalid_columns' = invalid
             /\ IF col_idx < Len(column_names)
                THEN /\ col_idx' = col_idx + 1
                     /\ UNCHANGED <<pc, result_row, results_data>>
                ELSE /\ UNCHANGED col_idx
                     /\ IF invalid # <<>>
                        THEN DqAppendResult(BothError(result_row,
                                 "ERROR: Column(s) not found in asset"))
                        ELSE /\ pc' = "dq_def"
                             /\ UNCHANGED <<result_row, results_data>>
    /\ UNCHANGED <<job, env_vars, user_vars, client_vars, row_num, row, cache_vars, proj_vars, assign_vars,
                   dimensions_cache, definitions_cache, srv_definitions,
                   all_definitions, start_token, defs_ret, dimension_id,
                   column_names, definition_id, created>>

\* get_or_create_dq_definition calls get_definition_by_name, lines 274 and
\* 129: the cached list is scanned, or the list is requested first.
DqGetDefinition ==
    /\ job = "dq"
    /\ pc = "dq_def"
    /\ IF definitions_cache.loaded
       THEN /\ DefinitionLookedUp(definitions_cache.list, <<>>)
            /\ UNCHANGED <<all_definitions, start_token, defs_ret>>
       ELSE /\ pc' = "dq_defs_page"
            /\ all_definitions' = <<>>
            /\ start_token' = 0
            /\ defs_ret' = "dq_def"
            /\ UNCHANGED <<definition_id, result_row, calls>>
    /\ UNCHANGED <<job, env_vars, user_vars, client_vars, row_num, row, results_data, cache_vars, proj_vars, assign_vars,
                   dimensions_cache, definitions_cache, srv_definitions,
                   dimension_id, column_names, col_idx, invalid_columns,
                   created>>

\* create_dq_definition, lines 221-263, and lines 283-287, 587-609
DqCreateDefinition ==
    /\ job = "dq"
    /\ pc = "dq_create"
    /\ authenticated
    /\ \E status \in {201, 400} :
         LET id == 100 + Len(srv_definitions) + 1
             new_definition == Definition(id, row.definition_name)
         IN  /\ Log(<<"definition_create", row.definition_name, status,
                      srv_definitions>>)
             /\ IF status = 201
                THEN /\ srv_definitions' = Append(srv_definitions, new_definition)
                     /\ definitions_cache' =
                          IF definitions_cache.loaded
                          THEN Loaded(Append(definitions_cache.list, new_definition))
                          ELSE definitions_cache
                     /\ created' = created \cup
                            {[id |-> id, name |-> row.definition_name,
                              row |-> row_num]}
                     /\ definition_id' = id
                     /\ result_row' = [result_row EXCEPT
                                         !.definition_status = "SUCCESS - Created new",
                                         !.definition_id = id]
                     /\ pc' = "dq_rule"
                     /\ UNCHANGED results_data
                ELSE /\ DqAppendResult([result_row EXCEPT
                          !.definition_status = "ERROR: Failed to get/create definition",
                          !.rule_status = "SKIPPED: Definition get/create failed"])
                     /\ UNCHANGED <<srv_definitions, definitions_cache, created,
                                    definition_id>>
    /\ UNCHANGED <<job, env_vars, user_vars, client_vars, row_num, row, cache_vars, proj_vars, assign_vars, dimensions_cache,
                   all_definitions, start_token, defs_ret, dimension_id,
                   column_names, col_idx, invalid_columns>>

\* create_dq_rule, line 299: field_names = [f"field{i+1}" ...], here with
\* positions counted from 1
FieldName(i) == <<"field", i>>
FieldNames(names) == [i \in 1..Len(names) |-> FieldName(i)]

\* create_column_bindings, lines 197-218
create_column_bindings_first(id, field_names, names) ==
    [i \in 1..Min(Len(names), Len(field_names)) |->
        [variable_name |-> field_names[i], asset_id |-> id,
         column_name |-> names[1]]]

create_column_bindings(id, field_names, names) ==
    [i \in 1..Min(Len(names), Len(field_names)) |->
        [variable_name |-> field_names[i], asset_id |-> id,
         column_name |-> names[i]]]

\* create_dq_rule, lines 290-472, and lines 597-604, 625
DqCreateRule ==
    /\ job = "dq"
    /\ pc = "dq_rule"
    /\ authenticated
    /\ \E status \in {201, 400} :
         /\ Log(<<"rule_create", definition_id, column_names, status,
                  create_column_bindings(asset_id, FieldNames(column_names),
                                         column_names)>>)
         /\ DqAppendResult([result_row EXCEPT
                !.rule_status = IF status = 201 THEN "SUCCESS" ELSE "ERROR"])
    /\ UNCHANGED <<job, env_vars, user_vars, client_vars, row_num, row, cache_vars, proj_vars, assign_vars, dimensions_cache,
                   definitions_cache, srv_definitions, all_definitions,
                   start_token, defs_ret, dimension_id, column_names, col_idx,
                   invalid_columns, definition_id, created>>

DqIdle ==
    /\ dimensions_cache = NotLoaded
    /\ definitions_cache = NotLoaded
    /\ srv_definitions = <<>>
    /\ all_definitions = <<>>
    /\ start_token = 0
    /\ defs_ret = ""
    /\ dimension_id = NoId
    /\ column_names = <<>>
    /\ col_idx = 0
    /\ invalid_columns = <<>>
    /\ definition_id = NoId
    /\ created = {}

DqInit ==
    /\ dimensions_cache = NotLoaded
    /\ definitions_cache = NotLoaded
    /\ srv_definitions \in
         {<<>>,
          <<Definition(1, "NN")>>,
          <<Definition(1, "NN"), Definition(2, "xx"), Definition(3, "nn")>>}
    /\ all_definitions = <<>>
    /\ start_token = 0
    /\ defs_ret = ""
    /\ dimension_id = NoId
    /\ column_names = <<>>
    /\ col_idx = 0
    /\ invalid_columns = <<>>
    /\ definition_id = NoId
    /\ created = {}

\* ============================================================ cpd_client.py
\* The settings __init__ loads, lines 29-34: whether CPD_HOST, API_KEY,
\* USERNAME and PASSWORD are set, and the values of ENV_TYPE and AUTH_TYPE.
AllSettings ==
    [cpd_host : BOOLEAN, api_key : BOOLEAN, username : BOOLEAN,
     password : BOOLEAN, env_type : {"SAAS", "SW"},
     auth_type : {"PASSWORD", "API_KEY"}]
CompleteSettings ==
    [cpd_host |-> TRUE, api_key |-> TRUE, username |-> TRUE,
     password |-> TRUE, env_type |-> "SW", auth_type |-> "PASSWORD"]
\* the settings the jobs are run with: complete, or with one of the
\* settings that password authentication needs missing
JobSettings ==
    {CompleteSettings,
     [CompleteSettings EXCEPT !.cpd_host = FALSE],
     [CompleteSettings EXCEPT !.username = FALSE],
     [CompleteSettings EXCEPT !.password = FALSE]}

\* _validate_config, lines 44-55: TRUE when no ValueError is raised
validate_config(c) ==
    IF ~c.cpd_host THEN FALSE
    ELSE IF c.env_type = "SAAS" /\ ~c.api_key THEN FALSE
    ELSE IF c.env_type # "SAAS"
    THEN IF c.auth_type = "PASSWORD" /\ ~(c.username /\ c.password)
         THEN FALSE
         ELSE IF c.auth_type # "PASSWORD" /\ ~(c.username /\ c.api_key)
         THEN FALSE
         ELSE TRUE
    ELSE TRUE

\* Where a job is once its client is constructed.
FirstPc ==
    IF job = "assign" THEN "preload"
    ELSE IF job = "dq" THEN "dq_main_dims"
    ELSE IF job \in {"projects", "users"} THEN "rows"
    ELSE IF job = "export_users" THEN "users_page"
    ELSE "returned"

\* 'with CPDClient() as client' at the start of a job, __init__ lines 16-42:
\* the ValueError of a failed validation ends the process.  The job "config"
\* is a caller that only constructs a client.
Startup ==
    /\ pc = "start"
    /\ pc' = IF validate_config(settings) THEN FirstPc ELSE "aborted"
    /\ UNCHANGED <<job, env_vars, user_vars, client_vars, row_vars, cache_vars,
                   assign_vars, dq_vars, proj_vars>>

\* _ensure_authenticated, lines 89-92: a client that holds no token asks for
\* one before it sends the request it was called for.
NeedsToken == ~authenticated

\* The positions at which the next thing the job does is the first request
\* of a client.  The clients of the assignment job and of the data-quality
\* job get their token at the first request of the preload, outside every
\* try block; the functions of create_projects.py and create_users.py send
\* their requests inside a try block of their own.
CatchesInFunction == job \in {"projects", "users"}
RequestPending ==
    pc \in {"load", "dq_main_dims", "export_page", "users_page", "p_check",
            "p_create", "p_users", "p_members", "p_assign", "u_create"}

\* authenticate, lines 57-87: the token request.  An answer of 200 stores the
\* token; any other answer, or no answer, raises ConnectionError, which
\* either reaches the except clause of the function that sent the request or
\* ends the process.
Authenticate ==
    /\ RequestPending
    /\ NeedsToken
    /\ ~auth_error
    /\ \E status \in {200, 401} :
         IF status = 200
         THEN /\ authenticated' = TRUE
              /\ tokens' = tokens + 1
              /\ UNCHANGED <<auth_failed, auth_error, pc>>
         ELSE /\ auth_failed' = TRUE
              /\ UNCHANGED <<authenticated, tokens>>
              /\ IF CatchesInFunction
                 THEN /\ auth_error' = TRUE
                      /\ UNCHANGED pc
                 ELSE /\ pc' = "aborted"
                      /\ UNCHANGED auth_error
    /\ UNCHANGED <<job, env_vars, user_vars, row_vars, cache_vars, assign_vars, dq_vars, proj_vars>>

\* The answers a function gets: the given statuses from the server, or none
\* (status 0, nothing sent) when the token request before it has failed.
Answers(statuses) == IF auth_error THEN {0} ELSE statuses

ClientInit ==
    /\ authenticated = FALSE
    /\ tokens = 0
    /\ auth_failed = FALSE
    /\ auth_error = FALSE

\* ======================================================= export_artifacts.py
\* artifact_types of main, lines 122-127
ExportTypes == <<"glossary_term", "data_class", "classification",
                 "reference_data">>

\* artifacts_by_type, lines 12-17: every call opens a client of its own.
ExportOpen ==
    /\ job = "export"
    /\ pc = "export_main"
    /\ authenticated' = FALSE
    /\ IF validate_config(settings)
       THEN /\ load_type' = ExportTypes[preload_idx]
            /\ offset' = 0
            /\ all_results' = <<>>
            /\ pc' = "export_page"
       ELSE /\ pc' = "aborted"
            /\ UNCHANGED <<load_type, offset, all_results>>
    /\ UNCHANGED <<job, env_vars, user_vars, tokens, auth_failed, auth_error, row_vars, srv_size,
                   artifact_cache, searches, load_failed, last_call,
                   preload_idx, assign_vars, dq_vars, proj_vars>>

\* artifacts_by_type returns and main (lines 131-139) writes the file of a
\* type that has records, then turns to the next type.
ExportReturn(records) ==
    /\ calls' = IF records # <<>>
                THEN Append(calls, <<"export_to_csv", load_type, records>>)
                ELSE calls
    /\ load_type' = NoType
    /\ offset' = 0
    /\ all_results' = <<>>
    /\ preload_idx' = preload_idx + 1
    /\ pc' = IF preload_idx < Len(ExportTypes) THEN "export_main" ELSE "done"

\* One iteration of the paging loop of artifacts_by_type, lines 19-57; its
\* batch_size is the 10000 of _load_artifacts.
ExportPage ==
    /\ job = "export"
    /\ pc = "export_page"
    /\ authenticated
    /\ \E status \in {200, 500}, k \in RunLengths(load_type, offset, batch_size) :
         LET rows == SearchRows(load_type, offset, k)
             total_hits == srv_size[load_type]
             acc == all_results \o rows
         IN  /\ last_call' = <<"search", load_type, offset, status>>
             /\ IF status # 200 \/ rows = <<>>
                THEN ExportReturn(all_results)
                ELSE IF offset + Len(rows) >= total_hits
                THEN ExportReturn(acc)
                ELSE /\ all_results' = acc
                     /\ offset' = offset + batch_size
                     /\ UNCHANGED <<load_type, preload_idx, pc, calls>>
    /\ UNCHANGED <<job, env_vars, user_vars, client_vars, row_num, row, result_row, results_data,
                   srv_size, artifact_cache, searches, load_failed,
                   assign_vars, dq_vars, proj_vars>>

\* =========================================================== export_users.py
\* offset += batch_size, line 38
NextUsersOffset_stuck(off) == off

NextUsersOffset(off) == off + users_batch_size

\* One iteration of the paging loop of users_with_roles, lines 17-38; after
\* the loop main (lines 73-80) writes the file when there are records.
ExportUsersPage ==
    /\ job = "export_users"
    /\ pc = "users_page"
    /\ authenticated
    /\ \E status \in {200, 500},
          k \in RunLengths("user", offset, users_batch_size) :
         LET users == SearchRows("user", offset, k)
             acc == all_results \o users
             returned == IF status # 200 \/ users = <<>> THEN all_results
                         ELSE acc
         IN  /\ last_call' = <<"users", offset, status>>
             /\ IF status # 200 \/ users = <<>>
                   \/ Len(users) < users_batch_size
                THEN /\ calls' = IF returned # <<>>
                                 THEN Append(calls, <<"export_users_to_csv",
                                                      returned>>)
                                 ELSE calls
                     /\ offset' = 0
                     /\ all_results' = <<>>
                     /\ pc' = "done"
                ELSE /\ all_results' = acc
                     /\ offset' = NextUsersOffset(offset)
                     /\ UNCHANGED <<pc, calls>>
    /\ UNCHANGED <<job, env_vars, user_vars, client_vars, row_num, row, result_row,
                   results_data, srv_size, artifact_cache, load_type,
                   searches, load_failed, preload_idx, assign_vars, dq_vars,
                   proj_vars>>

\* ======================================================= create_projects.py
\* extract_username_from_email, lines 7-9
extract_username_whole(email_or_username) == email_or_username

extract_username_from_email(email_or_username) ==
    IF \E i \in 1..Len(email_or_username) : email_or_username[i] = "@"
    THEN SplitSeq(email_or_username, "@")[1]
    ELSE email_or_username

Contains(s, sym) == \E i \in 1..Len(s) : s[i] = sym

\* Lines 311-325: the collaborator list of a row.
ParseCollaborators(field) ==
    LET collaborators == StripSeq(field)
    IN  IF collaborators = <<>> THEN <<>>
        ELSE IF Contains(collaborators, "|")
        THEN SelectSeq(StripAll(SplitSeq(collaborators, "|")), NonEmpty)
        ELSE IF Contains(collaborators, ";")
        THEN SelectSeq(StripAll(SplitSeq(collaborators, ";")), NonEmpty)
        ELSE <<StripSeq(collaborators)>>

\* ---- the platform's users and projects
\* uid of the users that exist, by username
SrvUsers == (<<"ann">> :> 11) @@ (<<"bob">> :> 12)
ProjectGuid(name) == "guid_" \o name
Member(user, state) == [user_name |-> <<user>>, type |-> "user", state |-> state]

\* get_project_members, lines 200-209: the usernames of the active users
ActiveUsernames(members) ==
    {m.user_name : m \in {x \in members : x.type = "user" /\ x.state = "ACTIVE"}}

ProjectRows ==
    [len : {3},
     project_name : {"p1", "p2"},
     collaborators : {<<>>,
                      <<"ann">>,
                      <<"ann", "|", "bob">>,
                      <<"bob", "@", "x", ";", Blank, "zed">>,
                      <<"ann", "|", "ann", "@", "x">>}]
ProjectShortRow == [len |-> 2]

\* result_row as initialised at lines 330-340
ProjectNewResultRow(n) ==
    [row_number |-> n, project_status |-> "", project_id |-> "",
     collaborator_results |-> <<>>, overall_status |-> ""]

\* The for loop of main reads the next row, lines 306-340.
ProjectReadRow ==
    /\ job = "projects"
    /\ pc = "rows"
    /\ row_num < MaxRows
    /\ \E r \in ProjectRows \cup {ProjectShortRow} :
         /\ row' = r
         /\ row_num' = row_num + 1
         /\ calls' = <<>>
         /\ IF r.len < 3
            THEN UNCHANGED <<pc, result_row, collaborator_list>>
            ELSE /\ pc' = "p_check"
                 /\ result_row' = ProjectNewResultRow(row_num + 1)
                 /\ collaborator_list' = ParseCollaborators(r.collaborators)
    /\ project_id' = ""
    /\ user_idx' = 0
    /\ valid_collaborators' = <<>>
    /\ new_collaborators' = <<>>
    /\ UNCHANGED <<job, env_vars, user_vars, client_vars, results_data, cache_vars, assign_vars, dq_vars,
                   srv_projects>>

\* Lines 385-441 once the project is known: with no collaborator to check
\* the row ends, otherwise the validation loop starts.
AfterProject(res) ==
    IF collaborator_list = <<>>
    THEN DqAppendResult([res EXCEPT !.overall_status = "No valid collaborators"])
    ELSE /\ result_row' = res
         /\ pc' = "p_users"
         /\ UNCHANGED results_data

\* check_project_exists, lines 59-96: the project id or None ("")
check_project_exists(status, project_name) ==
    IF status = 200 /\ project_name \in DOMAIN srv_projects
    THEN ProjectGuid(project_name)
    ELSE ""

\* Lines 343-349: look the project up.
ProjectCheck ==
    /\ job = "projects"
    /\ pc = "p_check"
    /\ authenticated \/ auth_error
    /\ auth_error' = FALSE
    /\ \E status \in Answers({200, 500}) :
         LET found == check_project_exists(status, row.project_name)
         IN  /\ Log(<<"project_lookup", row.project_name, status,
                      row.project_name \in DOMAIN srv_projects>>)
             /\ IF found # ""
                THEN /\ project_id' = found
                     /\ user_idx' = 1
                     /\ AfterProject([result_row EXCEPT
                                        !.project_status = "EXISTS",
                                        !.project_id = found])
                ELSE /\ pc' = "p_create"
                     /\ UNCHANGED <<project_id, user_idx, result_row,
                                    results_data>>
    /\ UNCHANGED <<job, env_vars, user_vars, authenticated, tokens, auth_failed, row_num, row, cache_vars, assign_vars, dq_vars,
                   srv_projects, collaborator_list, valid_collaborators,
                   new_collaborators>>

\* The answers to a project-create request: created with a location, created
\* without one, refused.  A name in use is always refused.
CreateAnswers(project_name) ==
    IF project_name \in DOMAIN srv_projects
    THEN {[status |-> 400, location |-> FALSE]}
    ELSE {[status |-> 201, location |-> TRUE],
          [status |-> 201, location |-> FALSE],
          [status |-> 400, location |-> FALSE]}

\* create_project, lines 99-160, and lines 350-364
ProjectCreate ==
    /\ job = "projects"
    /\ pc = "p_create"
    /\ authenticated \/ auth_error
    /\ auth_error' = FALSE
    /\ \E answer \in IF auth_error THEN {[status |-> 0, location |-> FALSE]}
                       ELSE CreateAnswers(row.project_name) :
         /\ Log(<<"project_create", row.project_name, answer.status>>)
         /\ srv_projects' =
              IF answer.status = 201
              THEN (row.project_name :> {}) @@ srv_projects
              ELSE srv_projects
         /\ IF answer.status = 201 /\ answer.location
            THEN /\ project_id' = ProjectGuid(row.project_name)
                 /\ user_idx' = 1
                 /\ AfterProject([result_row EXCEPT
                                    !.project_status = "CREATED",
                                    !.project_id = ProjectGuid(row.project_name)])
            ELSE /\ DqAppendResult([result_row EXCEPT
                       !.project_status = "ERROR",
                       !.overall_status = "ERROR: Project creation failed"])
                 /\ UNCHANGED <<project_id, user_idx>>
    /\ UNCHANGED <<job, env_vars, user_vars, authenticated, tokens, auth_failed, row_num, row, cache_vars, assign_vars, dq_vars,
                   collaborator_list, valid_collaborators, new_collaborators>>

\* The statuses of a user lookup: 200 for a user that exists, 404 for one
\* that does not, or an error.
UserStatuses(username) ==
    (IF username \in DOMAIN SrvUsers THEN {200} ELSE {404}) \cup {500}

\* One iteration of the validation loop, check_user_exists (lines 12-56)
\* and lines 370-383; after the last one lines 385-441 up to the next request.
ProjectCheckUser ==
    /\ job = "projects"
    /\ pc = "p_users"
    /\ authenticated \/ auth_error
    /\ auth_error' = FALSE
    /\ LET collaborator == collaborator_list[user_idx]
           username == extract_username_from_email(collaborator)
       IN  \E status \in Answers(UserStatuses(username)) :
             LET valid == IF status = 200
                          THEN Append(valid_collaborators,
                                      [original_input |-> collaborator,
                                       username |-> username,
                                       user_id |-> SrvUsers[username]])
                          ELSE valid_collaborators
             IN  /\ Log(<<"user_check", username, status>>)
                 /\ valid_collaborators' = valid
                 /\ IF user_idx < Len(collaborator_list)
                    THEN /\ user_idx' = user_idx + 1
                         /\ UNCHANGED <<pc, result_row, results_data>>
                    ELSE /\ UNCHANGED user_idx
                         /\ IF valid # <<>>
                            THEN /\ pc' = "p_members"
                                 /\ UNCHANGED <<result_row, results_data>>
                            ELSE DqAppendResult([result_row EXCEPT
                                     !.overall_status = "No valid collaborators"])
    /\ UNCHANGED <<job, env_vars, user_vars, authenticated, tokens, auth_failed, row_num, row, cache_vars, assign_vars, dq_vars,
                   srv_projects, project_id, collaborator_list,
                   new_collaborators>>

\* get_project_members, lines 163-216: the active usernames, or nothing
\* when the request fails
get_project_members(status, project_name) ==
    IF status = 200 /\ project_name \in DOMAIN srv_projects
    THEN ActiveUsernames(srv_projects[project_name])
    ELSE {}

Skipped(existing) ==
    [i \in 1..Len(existing) |->
        [username |-> existing[i].username, action |-> "SKIPPED",
         status |-> "Already a member"]]

Assigned(new, assignment_result) ==
    [i \in 1..Len(new) |->
        [username |-> new[i].username, action |-> "ASSIGNED",
         status |-> assignment_result]]

\* Lines 393-419: query the members, split the valid collaborators.
ProjectMembers ==
    /\ job = "projects"
    /\ pc = "p_members"
    /\ authenticated \/ auth_error
    /\ auth_error' = FALSE
    /\ \E status \in Answers({200, 500}) :
         LET current_members == get_project_members(status, row.project_name)
             IsNew(c) == c.username \notin current_members
             IsMember(c) == c.username \in current_members
             new == SelectSeq(valid_collaborators, IsNew)
             existing == SelectSeq(valid_collaborators, IsMember)
             res == [result_row EXCEPT !.collaborator_results = Skipped(existing)]
         IN  /\ Log(<<"members", status,
                      ActiveUsernames(srv_projects[row.project_name])>>)
             /\ new_collaborators' = new
             /\ IF new # <<>>
                THEN /\ result_row' = res
                     /\ pc' = "p_assign"
                     /\ UNCHANGED results_data
                ELSE DqAppendResult([res EXCEPT !.overall_status = "processed"])
    /\ UNCHANGED <<job, env_vars, user_vars, authenticated, tokens, auth_failed, row_num, row, cache_vars, assign_vars, dq_vars,
                   srv_projects, project_id, collaborator_list, user_idx,
                   valid_collaborators>>

Usernames(assignments) == [i \in 1..Len(assignments) |-> assignments[i].username]

\* assign_collaborators, lines 219-283, and lines 421-448
ProjectAssign ==
    /\ job = "projects"
    /\ pc = "p_assign"
    /\ authenticated \/ auth_error
    /\ auth_error' = FALSE
    /\ \E status \in Answers({200, 400}) :
         LET assignment_result == IF status = 200 THEN "SUCCESS" ELSE "ERROR"
             added == {Member(u[1], "ACTIVE") :
                          u \in {new_collaborators[i].username :
                                    i \in 1..Len(new_collaborators)}}
         IN  /\ Log(<<"members_add", Usernames(new_collaborators), status>>)
             /\ srv_projects' =
                  IF status = 200
                  THEN [srv_projects EXCEPT ![row.project_name] = @ \cup added]
                  ELSE srv_projects
             /\ DqAppendResult([result_row EXCEPT
                    !.collaborator_results =
                        @ \o Assigned(new_collaborators, assignment_result),
                    !.overall_status = "processed"])
    /\ UNCHANGED <<job, env_vars, user_vars, authenticated, tokens, auth_failed, row_num, row, cache_vars, assign_vars, dq_vars,
                   project_id, collaborator_list, user_idx,
                   valid_collaborators, new_collaborators>>

ProjectIdle ==
    /\ srv_projects = <<>>
    /\ project_id = ""
    /\ collaborator_list = <<>>
    /\ user_idx = 0
    /\ valid_collaborators = <<>>
    /\ new_collaborators = <<>>

ProjectInit ==
    /\ \E members \in {{}, {Member("ann", "ACTIVE")},
                       {Member("ann", "ACTIVE"), Member("bob", "PENDING")}} :
         srv_projects = ("p1" :> members)
    /\ project_id = ""
    /\ collaborator_list = <<>>
    /\ user_idx = 0
    /\ valid_collaborators = <<>>
    /\ new_collaborators = <<>>

\* ========================================================= create_users.py
UserRows ==
    [len : {2},
     display_name : {<<>>, <<Blank>>, <<"n">>},
     email : {<<>>, <<"a">>, <<"a", "@", "x">>, <<Blank, "@">>}]
UserShortRow == [len |-> 1]

\* result_row as initialised at lines 125-133
UserNewResultRow(n, username) ==
    [row_number |-> n, username |-> username, creation_status |-> <<>>,
     uid |-> NoId]

\* Lines 135-151: the email must hold an '@', the display name must not be
\* blank; the message of the check that fails, or nothing.
ValidationError(display_name, email) ==
    IF ~Contains(email, "@") \/ StripSeq(email) = <<>>
    THEN "Invalid email format"
    ELSE IF StripSeq(display_name) = <<>>
    THEN "Display name cannot be empty"
    ELSE ""

\* results_data.append(result_row), lines 141, 150 and 165
UserAppendResult(r) ==
    /\ DqAppendResult(r)
    /\ user_results' = Append(user_results, r)

\* The for loop of main reads the next row, lines 111-151.
UserReadRow ==
    /\ job = "users"
    /\ pc = "rows"
    /\ row_num < MaxRows
    /\ \E r \in UserRows \cup {UserShortRow} :
         /\ row' = r
         /\ row_num' = row_num + 1
         /\ calls' = <<>>
         /\ IF r.len < 2
            THEN UNCHANGED <<pc, result_row, results_data, user_results>>
            ELSE LET display_name == StripSeq(r.display_name)
                     email == StripSeq(r.email)
                     res == UserNewResultRow(row_num + 1,
                                extract_username_from_email(email))
                     error_msg == ValidationError(display_name, email)
                 IN  IF error_msg # ""
                     THEN UserAppendResult([res EXCEPT !.creation_status =
                                             Status("ERROR", error_msg)])
                     ELSE /\ result_row' = res
                          /\ pc' = "u_create"
                          /\ UNCHANGED <<results_data, user_results>>
    /\ UNCHANGED <<job, env_vars, summary, client_vars, cache_vars, assign_vars, dq_vars, proj_vars>>

\* The answers to a user-create request: the status, the _messageCode_ of
\* the body ("unparsable" for a body that is not JSON) and the uid.  Status 0
\* stands for a request that raised instead of answering.
CreateUserAnswers ==
    {[status |-> 201, code |-> "success", uid |-> 21],
     [status |-> 201, code |-> "email_exist", uid |-> 22],
     [status |-> 201, code |-> "unparsable", uid |-> NoId],
     [status |-> 409, code |-> "email_exist", uid |-> NoId],
     [status |-> 409, code |-> "username_exist", uid |-> NoId],
     [status |-> 500, code |-> "unparsable", uid |-> NoId],
     [status |-> 0, code |-> "unparsable", uid |-> NoId]}

\* create_user, lines 38-83: the status message and the uid
create_user_by_code(answer) ==
    IF answer.status = 0 THEN <<Status("ERROR", "Request failed"), NoId>>
    ELSE IF answer.code = "email_exist"
    THEN <<Status("EXISTS", "message"), NoId>>
    ELSE IF answer.status = 201
    THEN <<Status("SUCCESS", answer.code), answer.uid>>
    ELSE <<Status("ERROR", "HTTP"), NoId>>

create_user(answer) ==
    IF answer.status = 0 THEN <<Status("ERROR", "Request failed"), NoId>>
    ELSE IF answer.status = 201
    THEN IF answer.code = "unparsable"
         THEN <<Status("SUCCESS", "response parsing failed"), NoId>>
         ELSE <<Status("SUCCESS", answer.code), answer.uid>>
    ELSE IF answer.code = "email_exist"
    THEN <<Status("EXISTS", "message"), NoId>>
    ELSE <<Status("ERROR", "HTTP"), NoId>>

\* Lines 153-165: create the user and record the outcome.
UserCreate ==
    /\ job = "users"
    /\ pc = "u_create"
    /\ authenticated \/ auth_error
    /\ auth_error' = FALSE
    /\ \E answer \in {a \in CreateUserAnswers : auth_error => a.status = 0} :
         LET returned == create_user(answer)
         IN  /\ Log(<<"user_create", result_row.username, answer.status,
                      answer.code>>)
             /\ UserAppendResult([result_row EXCEPT
                                  !.creation_status = returned[1],
                                  !.uid = returned[2]])
    /\ UNCHANGED <<job, env_vars, summary, authenticated, tokens, auth_failed, row_num, row, cache_vars, assign_vars, dq_vars,
                   proj_vars>>

\* ================================================ the parsing functions
\* Callers of the functions that take a string apart; the strings are the
\* sequences of at most MaxLen symbols.
SeqsUpTo(symbols, n) == UNION {[1..k -> symbols] : k \in 0..n}

BoundSymbols == {"a", "b", "+", "|", ";", ",", Blank}
CollaboratorSymbols == {"a", "b", "|", ";", "@", Blank}

\* process_dq_rules_csv, lines 516 and 551
CallParseBound ==
    /\ job = "parse"
    /\ pc = "idle"
    /\ \E fields \in SeqsUpTo(BoundSymbols, MaxLen) :
         last_call' = <<"parse_bound_expressions", fields,
                        parse_bound_expressions(StripSeq(fields))>>
    /\ pc' = "returned"
    /\ UNCHANGED <<job, env_vars, user_vars, client_vars, row_vars, srv_size, artifact_cache, load_type,
                   offset, all_results, searches, load_failed, preload_idx,
                   assign_vars, dq_vars, proj_vars>>

\* create_projects.main, lines 313-325 and 370-372
CallParseCollaborators ==
    /\ job = "parse"
    /\ pc = "idle"
    /\ \E field \in SeqsUpTo(CollaboratorSymbols, MaxLen) :
         LET list == ParseCollaborators(field)
         IN  last_call' = <<"collaborators", field, list,
                            [i \in 1..Len(list) |->
                                extract_username_from_email(list[i])]>>
    /\ pc' = "returned"
    /\ UNCHANGED <<job, env_vars, user_vars, client_vars, row_vars, srv_size, artifact_cache, load_type,
                   offset, all_results, searches, load_failed, preload_idx,
                   assign_vars, dq_vars, proj_vars>>

\* ---- flatten_record of export_artifacts.py
\* A JSON value: its type, its number when it is one, and its entries.  The
\* entries of a mapping carry their keys, those of a list the key "".
NoneValue == [t |-> "None", n |-> 0, items |-> <<>>]
Num(k) == [t |-> "int", n |-> k, items |-> <<>>]
Entry(key, value) == [key |-> key, val |-> value]
ListOf(values) ==
    [t |-> "list", n |-> 0,
     items |-> [i \in 1..Len(values) |-> Entry("", values[i])]]
DictOf(entries) == [t |-> "dict", n |-> 0, items |-> entries]

\* str(obj) of a number or of None; '' is the empty sequence
TextOf(obj) == IF obj.t = "None" THEN <<"None">> ELSE <<ToString(obj.n)>>

\* '; '.join(str(item) for item in obj)
RECURSIVE JoinItems(_, _)
JoinItems(items, i) ==
    IF i > Len(items) THEN <<>>
    ELSE IF i = Len(items) THEN TextOf(items[i].val)
    ELSE TextOf(items[i].val) \o <<"; ">> \o JoinItems(items, i + 1)

\* flattened[prefix] = value
Put(flattened, prefix, value) == (prefix :> value) @@ flattened

\* Line 83: the string of a value that is neither a mapping nor a list.
ScalarText_plain(obj) == TextOf(obj)

ScalarText(obj) == IF obj.t # "None" THEN TextOf(obj) ELSE <<>>

\* _flatten, lines 66-83; FlattenEntries is its loop over obj.items().
RECURSIVE Flatten(_, _, _)
RECURSIVE FlattenEntries(_, _, _, _)
FlattenEntries(items, i, prefix, flattened) ==
    IF i > Len(items) THEN flattened
    ELSE LET key == items[i].key
             value == items[i].val
             new_key == IF prefix # <<>> THEN prefix \o <<".", key>>
                        ELSE <<key>>
         IN  IF key = "_score"
             THEN FlattenEntries(items, i + 1, prefix, flattened)
             ELSE FlattenEntries(items, i + 1, prefix,
                                 Flatten(value, new_key, flattened))

Flatten(obj, prefix, flattened) ==
    IF obj.t = "dict" THEN FlattenEntries(obj.items, 1, prefix, flattened)
    ELSE IF obj.t = "list"
    THEN IF obj.items # <<>>
         THEN IF Len(obj.items) = 1
              THEN Flatten(obj.items[1].val, prefix, flattened)
              ELSE Put(flattened, prefix, JoinItems(obj.items, 1))
         ELSE Put(flattened, prefix, <<>>)
    ELSE Put(flattened, prefix, ScalarText(obj))

\* flatten_record, lines 62-86
flatten_record(record) == Flatten(record, <<>>, <<>>)

\* The records handed to flatten_record: mappings of at most MaxEntries
\* entries whose values are numbers, None, lists of at most two of these,
\* mappings of at most one such entry, and one-element lists of such
\* mappings.
RecordKeys == <<"a", "b", "_score">>
KeySet == {RecordKeys[i] : i \in 1..Len(RecordKeys)}
Scalars == {NoneValue, Num(1), Num(2)}
Lists == {ListOf(<<>>), ListOf(<<Num(1)>>), ListOf(<<NoneValue>>),
          ListOf(<<Num(1), Num(2)>>), ListOf(<<Num(1), NoneValue>>)}
InKeys(f) == LET IsKey(k) == k \in DOMAIN f IN SelectSeq(RecordKeys, IsKey)
EntriesOf(f) == [i \in 1..Len(InKeys(f)) |-> Entry(InKeys(f)[i], f[InKeys(f)[i]])]
DictsOver(values, n) ==
    UNION {{DictOf(EntriesOf(f)) : f \in [K -> values]} :
              K \in {S \in SUBSET KeySet : Cardinality(S) <= n}}
InnerDicts == DictsOver(Scalars \cup Lists, 1)
FieldValues ==
    Scalars \cup Lists \cup InnerDicts \cup {ListOf(<<d>>) : d \in InnerDicts}
Records == DictsOver(FieldValues, MaxEntries)

\* export_to_csv, line 103, flattens a record.
CallFlatten ==
    /\ job = "parse"
    /\ pc = "idle"
    /\ \E record \in Records :
         last_call' = <<"flatten_record", record, flatten_record(record)>>
    /\ pc' = "returned"
    /\ UNCHANGED <<job, env_vars, user_vars, client_vars, row_vars, srv_size, artifact_cache, load_type,
                   offset, all_results, searches, load_failed, preload_idx,
                   assign_vars, dq_vars, proj_vars>>

\* ============================================================ the programs
Init ==
    /\ RowInit
    /\ ClientInit
    /\ user_results = <<>>
    /\ summary = NoSummary
    /\ \/ /\ job = "cache"
          /\ pc = "idle"
          /\ settings = CompleteSettings
          /\ PROJECT_ID = TRUE
          /\ CacheInit(MaxRecords)
          /\ AssignIdle
          /\ DqIdle
          /\ ProjectIdle
       \/ /\ job = "assign"
          /\ pc = "start"
          /\ settings \in JobSettings
          /\ PROJECT_ID \in BOOLEAN
          /\ CacheInit(JobRecords)
          /\ AssignInit
          /\ DqIdle
          /\ ProjectIdle
       \/ /\ job = "dq"
          /\ pc = "start"
          /\ settings \in JobSettings
          /\ PROJECT_ID \in BOOLEAN
          /\ CacheInit(0)
          /\ AssignIdle
          /\ DqInit
          /\ ProjectIdle
       \/ /\ job = "projects"
          /\ pc = "start"
          /\ settings \in JobSettings
          /\ PROJECT_ID \in {TRUE}
          /\ CacheInit(0)
          /\ AssignIdle
          /\ DqIdle
          /\ ProjectInit
       \/ /\ job = "users"
          /\ pc = "start"
          /\ settings \in JobSettings
          /\ PROJECT_ID \in {TRUE}
          /\ CacheInit(0)
          /\ AssignIdle
          /\ DqIdle
          /\ ProjectIdle
       \/ /\ job = "export"
          /\ pc = "export_main"
          /\ settings \in JobSettings
          /\ PROJECT_ID = TRUE
          /\ CacheInit(MaxRecords)
          /\ AssignIdle
          /\ DqIdle
          /\ ProjectIdle
       \/ /\ job = "parse"
          /\ pc = "idle"
          /\ settings = CompleteSettings
          /\ PROJECT_ID = TRUE
          /\ CacheInit(0)
          /\ AssignIdle
          /\ DqIdle
          /\ ProjectIdle
       \/ /\ job = "export_users"
          /\ pc = "start"
          /\ settings \in JobSettings
          /\ PROJECT_ID = TRUE
          /\ CacheInit(MaxRecords)
          /\ AssignIdle
          /\ DqIdle
          /\ ProjectIdle
       \/ /\ job = "config"
          /\ pc = "start"
          /\ settings \in AllSettings
          /\ PROJECT_ID = TRUE
          /\ CacheInit(0)
          /\ AssignIdle
          /\ DqIdle
          /\ ProjectIdle

Next ==
    \/ CallLoad
    \/ CallLookup
    \/ LoadPageOk
    \/ LoadPageError
    \/ Preload
    \/ AssignReadRow
    \/ EndOfFile
    \/ AssignGetAsset
    \/ AssignValidate
    \/ AssignProbeColumnInfo
    \/ AssignProbeColumn
    \/ AssignBulkPatch
    \/ DqPreloadDimensions
    \/ DqPreloadDefinitions
    \/ DqDefinitionsPage
    \/ DqReadRow
    \/ DqDimension
    \/ DqGetAsset
    \/ DqValidate
    \/ DqGetDefinition
    \/ DqCreateDefinition
    \/ DqCreateRule
    \/ ProjectReadRow
    \/ ProjectCheck
    \/ ProjectCreate
    \/ ProjectCheckUser
    \/ ProjectMembers
    \/ ProjectAssign
    \/ UserReadRow
    \/ UserCreate
    \/ Startup
    \/ Authenticate
    \/ ExportOpen
    \/ ExportPage
    \/ ExportUsersPage
    \/ CallParseBound
    \/ CallParseCollaborators
    \/ CallFlatten

Spec == Init /\ [][Next]_vars

\* The runs whose termination is checked: every job, and the cache harness
\* for the paging loop of _load_artifacts over more than one page. The
\* settings are as in Init; PROJECT_ID is set and column_info of the asset
\* starts with one column.
LiveInit ==
    /\ Init
    /\ job \in {"cache", "assign", "dq", "projects", "users", "export",
                "export_users"}
    /\ PROJECT_ID = TRUE
    /\ job = "assign" => srv_column_info = [exists |-> TRUE, columns |-> {"amt"}]

LiveNext ==
    \/ CallLoad
    \/ CallLookup
    \/ LoadPageOk
    \/ LoadPageError
    \/ Preload
    \/ AssignReadRow
    \/ EndOfFile
    \/ AssignGetAsset
    \/ AssignValidate
    \/ AssignProbeColumnInfo
    \/ AssignProbeColumn
    \/ AssignBulkPatch
    \/ DqPreloadDimensions
    \/ DqPreloadDefinitions
    \/ DqDefinitionsPage
    \/ DqReadRow
    \/ DqDimension
    \/ DqGetAsset
    \/ DqValidate
    \/ DqGetDefinition
    \/ DqCreateDefinition
    \/ DqCreateRule
    \/ ProjectReadRow
    \/ ProjectCheck
    \/ ProjectCreate
    \/ ProjectCheckUser
    \/ ProjectMembers
    \/ ProjectAssign
    \/ UserReadRow
    \/ UserCreate
    \/ Startup
    \/ Authenticate
    \/ ExportOpen
    \/ ExportPage
    \/ ExportUsersPage

\* The jobs are sequential programs and every request returns: a run that
\* can take a step takes one.
FairSpec == LiveInit /\ [][LiveNext]_vars /\ WF_vars(LiveNext)

\* ================================================================ properties
RowDone == pc = "rows" /\ row # NoRow /\ result_row # NoRow
           /\ result_row.row_number = row_num
Events(kinds) == {i \in 1..Len(calls) : calls[i][1] \in kinds}

\* C1: in the column-assignment job and in the data-quality job a mutating
\* request (bulk patch, definition create, rule create) of a row comes only
\* after a successful check of every column the row names, and every such
\* column is a column of the asset; a row naming a missing column, alone or
\* among several, or whose check fails, sends no mutating request.
C1_ValidateBeforeMutate ==
    /\ job = "assign" =>
         \A i \in Events({"bulk_patch"}) :
            /\ row.column_name \in AssetColumns
            /\ \E j \in 1..(i - 1) : calls[j] = <<"validate", row.column_name, 200>>
    /\ job = "dq" =>
         \A i \in Events({"definition_create", "rule_create"}) :
            LET named == parse_bound_expressions(row.fields)
            IN  \A k \in 1..Len(named) :
                   /\ named[k] \in DqAssetColumns
                   /\ \E j \in 1..(i - 1) : calls[j] = <<"validate", named[k], 200>>

\* A data-quality row naming two columns, one of them missing, was rejected
\* after both checks and sent no mutating request.
C1_Witness ==
    /\ job = "dq"
    /\ RowDone
    /\ Len(parse_bound_expressions(row.fields)) = 2
    /\ Cardinality(Events({"validate"})) = 2
    /\ result_row.rule_status = "ERROR: Column(s) not found in asset"
    /\ Events({"definition_create", "rule_create"}) = {}

\* C2: the operations of a bulk patch follow the state of column_info on the
\* server when the patch is built: one add of the container when there is no
\* column_info, one add of the column when column_info lacks it, one add per
\* supplied attribute when both exist.
C2_PatchShapeFollowsServer ==
    job = "assign" =>
      \A i \in Events({"bulk_patch"}) :
         LET ops == calls[i][2]
             info == calls[i][4]
             column == row.column_name
         IN  IF ~info.exists
             THEN /\ Len(ops) = 1
                  /\ ops[1].path = <<"entity", "column_info">>
                  /\ ops[1].value = (column :> column_data)
             ELSE IF column \notin info.columns
             THEN /\ Len(ops) = 1
                  /\ ops[1].path = <<"entity", "column_info", column>>
                  /\ ops[1].value = column_data
             ELSE /\ Len(ops) = Cardinality(DOMAIN column_data)
                  /\ \A k \in 1..Len(ops) : Len(ops[k].path) = 4
                  /\ {ops[k].path[4] : k \in 1..Len(ops)} =
                        {AttributePath(a) : a \in DOMAIN column_data}

\* C3: once a type is in the cache, no step sends a search request for it or
\* changes its cached list, whatever load calls and lookups follow; in a
\* column-assignment run no step after the preload sends a search request,
\* so the number of search requests does not grow with the rows read.
C3_LoadedOnce ==
    [][/\ \A t \in TypeSet :
            t \in DOMAIN artifact_cache =>
               /\ t \in DOMAIN artifact_cache'
               /\ artifact_cache'[t] = artifact_cache[t]
               /\ searches'[t] = searches[t]
       /\ (job = "assign" /\ pc \notin {"preload", "load"}) =>
            searches' = searches]_vars

\* A load of a type that was fetched before returned from the cache.
C3_Witness ==
    \E t \in TypeSet :
       /\ last_call = <<"load", t, "cached">>
       /\ searches[t] > 0
       /\ t \in DOMAIN artifact_cache

\* C4: a load whose page requests all succeeded leaves in the cache every
\* record of the type, once and in server order.
C4_AllRecordsLoaded ==
    \A t \in DOMAIN artifact_cache :
       t \notin load_failed => artifact_cache[t] = ServerRecords(t)

\* The cached records of a type that match a name and a category exactly.
Matches(t, name, category) ==
    {i \in 1..Len(artifact_cache[t]) :
        /\ artifact_cache[t][i].name = name
        /\ artifact_cache[t][i].primary_category_name = category}
FirstMatch(t, name, category) ==
    LET m == Matches(t, name, category)
        i == CHOOSE k \in m : \A l \in m : k <= l
    IN  IF m = {} THEN None
        ELSE <<artifact_cache[t][i].global_id, artifact_cache[t][i].artifact_id>>

\* C5: a lookup returns the ids of the first cached record, in fetch order,
\* whose name and category equal the arguments exactly, and None when there
\* is none; the ids that the column data of a row carries are those ids.
C5_LookupFirstMatch ==
    /\ last_call[1] = "lookup" =>
         last_call[5] = FirstMatch(last_call[2], last_call[3], last_call[4])
    /\ (job = "assign" /\ "column_terms" \in DOMAIN column_data) =>
         column_data["column_terms"].term_id =
            FirstMatch("glossary_term", row.term[1], row.term[2])[1]
    /\ (job = "assign" /\ "column_classifications" \in DOMAIN column_data) =>
         LET ids == FirstMatch("classification", row.classification[1],
                               row.classification[2])
         IN  /\ column_data["column_classifications"].global_id = ids[1]
             /\ column_data["column_classifications"].id = ids[2]
    /\ (job = "assign" /\ "data_class" \in DOMAIN column_data) =>
         column_data["data_class"].id =
            FirstMatch("data_class", row.data_class[1], row.data_class[2])[1]

\* A lookup matched two cached records and returned a pair of ids.
C5_Witness ==
    /\ last_call[1] = "lookup"
    /\ Cardinality(Matches(last_call[2], last_call[3], last_call[4])) >= 2
    /\ last_call[5] # None

\* C6: a page request answered with a non-success status ends the load with
\* the cache entry of the type set to the records accumulated so far, and
\* after that no step sends a search request for the type or changes its
\* entry.
C6_FailedPageCachesPartial ==
    [][/\ (searches' # searches /\ last_call'[4] # 200) =>
            /\ load_type \in DOMAIN artifact_cache'
            /\ artifact_cache'[load_type] = all_results
            /\ pc' # "load"
       /\ \A t \in load_failed :
            /\ searches'[t] = searches[t]
            /\ t \in DOMAIN artifact_cache'
            /\ artifact_cache'[t] = artifact_cache[t]]_vars

\* A load that failed on a later page left a non-empty, incomplete list.
C6_Witness ==
    \E t \in load_failed :
       /\ t \in DOMAIN artifact_cache
       /\ artifact_cache[t] # <<>>
       /\ Len(artifact_cache[t]) < srv_size[t]

\* C7: a row with valid collaborators sends one membership-add request whose
\* payload is exactly the valid collaborators that are not active members of
\* the project, none when all of them are members, and every valid
\* collaborator who is an active member is reported SKIPPED and is not in
\* the payload.
C7_OneBatchedAdd ==
    (job = "projects" /\ RowDone /\ Events({"members"}) # {}) =>
       LET i == CHOOSE k \in Events({"members"}) : TRUE
           active == calls[i][3]
           IsNew(c) == c.username \notin active
           IsMember(c) == c.username \in active
           new == SelectSeq(valid_collaborators, IsNew)
           existing == SelectSeq(valid_collaborators, IsMember)
           adds == Events({"members_add"})
       IN  /\ new # <<>> =>
                /\ Cardinality(adds) = 1
                /\ \A k \in adds : calls[k][2] = Usernames(new)
           /\ new = <<>> => adds = {}
           /\ \A e \in 1..Len(existing) :
                /\ \E r \in 1..Len(result_row.collaborator_results) :
                      /\ result_row.collaborator_results[r].username =
                            existing[e].username
                      /\ result_row.collaborator_results[r].action = "SKIPPED"
                /\ \A k \in adds :
                      \A p \in 1..Len(calls[k][2]) :
                         calls[k][2][p] # existing[e].username

\* C8: a row sends a project-create request exactly when its lookup answered
\* that no project has the name; for a name that is in use no create request
\* is sent and the row is recorded as EXISTS with the id of the project.
C8_CreateIffAbsent ==
    (job = "projects" /\ Events({"project_lookup"}) # {}) =>
       LET i == CHOOSE k \in Events({"project_lookup"}) : TRUE
           answered == calls[i][3] = 200
           in_use == calls[i][4]
           creates == Events({"project_create"})
       IN  /\ creates # {} => (answered /\ ~in_use)
           /\ (answered /\ ~in_use /\ pc # "p_create") => creates # {}
           /\ in_use =>
                /\ creates = {}
                /\ RowDone =>
                     /\ result_row.project_status = "EXISTS"
                     /\ result_row.project_id = ProjectGuid(row.project_name)

\* C9: once a row has created a definition named n, a later row with the
\* same definition name sends neither a definition-create request nor a
\* request for the list of definitions, and is recorded as 'SUCCESS - Found
\* existing' with the id that was created.
C9_CreatedIsReused ==
    (job = "dq" /\ row # NoRow /\ row.len = 7) =>
       \A c \in created :
          (c.row < row_num /\ c.name = row.definition_name) =>
             /\ Events({"definition_create", "definitions_list"}) = {}
             /\ pc = "dq_rule" =>
                  /\ result_row.definition_status = "SUCCESS - Found existing"
                  /\ result_row.definition_id = c.id

DefinitionObtained(e) ==
    \/ e[1] = "definition"
    \/ e[1] = "definition_create" /\ e[3] = 201

\* C10: a rule-create request of a row comes after, in this order, the
\* dimension resolved, the asset resolved, every parsed column validated and
\* a definition id obtained.  A row whose dimension is not found sends no
\* asset search, definition-create or rule-create request and has both
\* statuses ERROR; a row whose asset is not found sends no definition-create
\* or rule-create request; a row whose definition-create is refused sends
\* no rule-create request and has rule status SKIPPED.
C10_StagesInOrder ==
    job = "dq" =>
      /\ \A i \in Events({"rule_create"}) :
           LET named == parse_bound_expressions(row.fields)
           IN  \E a, b, d \in 1..(i - 1) :
                  /\ a < b /\ b < d
                  /\ calls[a][1] = "dimension" /\ calls[a][2] # NoId
                  /\ calls[b] = <<"asset_search", row.asset_name, 200>>
                  /\ AssetCount(row.asset_name) >= 1
                  /\ DefinitionObtained(calls[d])
                  /\ \A k \in 1..Len(named) :
                        \E v \in (b + 1)..(d - 1) :
                           calls[v] = <<"validate", named[k], 200>>
      /\ (\E a \in Events({"dimension"}) : calls[a][2] = NoId) =>
           /\ Events({"asset_search", "definition_create", "rule_create"}) = {}
           /\ RowDone =>
                /\ result_row.definition_status = "ERROR: Dimension not found"
                /\ result_row.rule_status = "ERROR: Dimension not found"
      /\ (\E b \in Events({"asset_search"}) :
             calls[b][3] # 200 \/ AssetCount(row.asset_name) < 1) =>
           Events({"definition_create", "rule_create"}) = {}
      /\ (\E d \in Events({"definition_create"}) : calls[d][3] # 201) =>
           /\ Events({"rule_create"}) = {}
           /\ RowDone =>
                result_row.rule_status = "SKIPPED: Definition get/create failed"

\* A rule was created on a definition that the same row created.
C10_Witness ==
    /\ job = "dq"
    /\ RowDone
    /\ result_row.definition_status = "SUCCESS - Created new"
    /\ result_row.rule_status = "SUCCESS"
    /\ Len(column_names) = 2

\* The column of the current row passed validateColumn.
Validated ==
    \E i \in Events({"validate"}) :
       calls[i] = <<"validate", row.column_name, 200>>
       /\ row.column_name \in AssetColumns

\* C11: in the column-assignment job an asset search that is answered
\* resolves the asset only when it reports exactly one asset; when it
\* reports none or several the row ends with every result column set to the
\* asset error and sends neither a column check, a probe nor a bulk patch.
C11_ExactlyOneAsset ==
    job = "assign" =>
      \A i \in Events({"asset_search"}) :
         calls[i][3] = 200 =>
            IF AssetCount(row.asset_name) = 1
            THEN asset_id = AssetId(row.asset_name)
            ELSE /\ asset_id = ""
                 /\ Events({"validate", "probe_column_info", "probe_column",
                            "bulk_patch"}) = {}
                 /\ pc \in {"rows", "done"}
                 /\ result_row = AllError(NewResultRow(row_num),
                                          "ERROR: Asset error")

\* A row naming an asset that exists twice ended with the asset error.
C11_Witness ==
    /\ job = "assign"
    /\ RowDone
    /\ AssetCount(row.asset_name) = 2
    /\ calls = <<<<"asset_search", row.asset_name, 200>>>>
    /\ result_row.asset_update_status = "ERROR: Asset error"

\* The three looked-up facets of a row: the row field, the artifact type, the
\* result column, the key in column_data and the text of a skipped facet.
Facets ==
    {[field |-> "term", type |-> "glossary_term", result |-> "term_result",
      key |-> "column_terms", skipped |-> "SKIPPED: No term data"],
     [field |-> "classification", type |-> "classification",
      result |-> "classification_result", key |-> "column_classifications",
      skipped |-> "SKIPPED: No classification data"],
     [field |-> "data_class", type |-> "data_class",
      result |-> "data_class_result", key |-> "data_class",
      skipped |-> "SKIPPED: No data class data"]}

C13_PatchIffResolved ==
    job = "assign" =>
      /\ \A i \in Events({"bulk_patch"}) : Len(calls[i][2]) >= 1
      /\ Validated =>
           LET resolved ==
                 \E c \in {"description_result", "term_result",
                           "classification_result", "data_class_result"} :
                    result_row[c] = "SUCCESS"
           IN  /\ resolved <=> (DOMAIN column_data # {})
               /\ Events({"bulk_patch"}) # {} => resolved
               /\ RowDone =>
                    IF resolved
                    THEN Cardinality(Events({"bulk_patch"})) = 1
                    ELSE /\ Events({"probe_column_info", "probe_column",
                                    "bulk_patch"}) = {}
                         /\ result_row.asset_update_status =
                               "WARNING: No valid assignments found"

\* A validated row none of whose facets resolved ended with the warning.
C13_Witness ==
    /\ job = "assign"
    /\ Validated
    /\ RowDone
    /\ column_data = <<>>
    /\ result_row.term_result = "ERROR: not found"
    /\ result_row.asset_update_status = "WARNING: No valid assignments found"

\* C14: the bindings of a rule-create request are as many as the validated
\* column names of the row, and the i-th binding has the variable name
\* field<i> and targets the i-th column name, in parse order, on the asset
\* that the row resolved.
C14_BindingsPositional ==
    job = "dq" =>
      \A e \in Events({"rule_create"}) :
         LET bindings == calls[e][5]
             named == parse_bound_expressions(row.fields)
         IN  /\ Len(bindings) = Len(named)
             /\ \A i \in 1..Len(named) :
                   /\ bindings[i].variable_name = <<"field", i>>
                   /\ bindings[i].column_name = named[i]
                   /\ bindings[i].asset_id = AssetId(row.asset_name)

\* A rule was created with three bindings, two of them on the same column.
C14_Witness ==
    /\ job = "dq"
    /\ \E e \in Events({"rule_create"}) :
          /\ Len(calls[e][5]) = 3
          /\ calls[e][5][1].column_name # calls[e][5][2].column_name
          /\ calls[e][5][1].column_name = calls[e][5][3].column_name
          /\ calls[e][4] = 201

\* A string cut at every symbol of seps, empty pieces included.
RECURSIVE SplitAt(_, _)
SplitAt(str, seps) ==
    LET at == {i \in 1..Len(str) : str[i] \in seps}
        first == CHOOSE i \in at : \A j \in at : i <= j
    IN  IF at = {} THEN <<str>>
        ELSE <<SubSeq(str, 1, first - 1)>>
             \o SplitAt(SubSeq(str, first + 1, Len(str)), seps)

\* A piece without its leading and trailing blanks.
Trimmed(piece) ==
    LET solid == {i \in 1..Len(piece) : piece[i] # Blank}
        lo == CHOOSE i \in solid : \A j \in solid : i <= j
        hi == CHOOSE i \in solid : \A j \in solid : j <= i
    IN  IF solid = {} THEN <<>> ELSE SubSeq(piece, lo, hi)

\* The non-empty trimmed pieces of a string cut at seps, in order.
Pieces(str, seps) ==
    LET cut == SplitAt(str, seps)
        IsSolid(piece) == piece # <<>>
    IN  SelectSeq([i \in 1..Len(cut) |-> Trimmed(cut[i])], IsSolid)

\* C15: parse_bound_expressions returns, in order, the non-empty trimmed
\* pieces of its input cut at '+', '|' and ';', the empty list for an empty
\* or blank input, and a piece holding none of the three separators as one
\* column name.
C15_ParseCutsAtSeparators ==
    last_call[1] = "parse_bound_expressions" =>
       last_call[3] = Pieces(last_call[2], {"+", "|", ";"})

\* The dimension of a list that a name selects when letter case is ignored:
\* the id of the first one, or NoId.
FirstDimensionIgnoringCase(dimensions, name) ==
    LET m == {i \in 1..Len(dimensions) :
                 Lower(dimensions[i].name) = Lower(name)}
    IN  IF m = {} THEN NoId
        ELSE dimensions[CHOOSE i \in m : \A j \in m : i <= j].id

\* C16: the dimension a row resolves is the first loaded dimension whose
\* name equals the requested name when letter case is ignored, and none when
\* there is no such dimension; a term, classification or data-class name
\* and a definition name differing from the requested one only in case do
\* not match.
C16_DimensionIgnoresCase ==
    /\ job = "dq" =>
         /\ \A e \in Events({"dimension"}) :
               calls[e][2] =
                  FirstDimensionIgnoringCase(calls[e][3], row.dimension_name)
         /\ \A e \in Events({"definition"}) :
               \E i \in 1..Len(srv_definitions) :
                  /\ srv_definitions[i].id = calls[e][2]
                  /\ srv_definitions[i].name = row.definition_name
    /\ (last_call[1] = "lookup" /\ last_call[5] # None) =>
         \E i \in 1..Len(artifact_cache[last_call[2]]) :
            artifact_cache[last_call[2]][i].name = last_call[3]

\* A row naming the dimension "valid" resolved the dimension "Valid", the
\* first of two that match when case is ignored, and found the definition
\* "nn" although "NN" comes first in the list.
C16_Witness ==
    /\ job = "dq"
    /\ row # NoRow
    /\ row.len = 7
    /\ row.dimension_name = "valid"
    /\ row.definition_name = "nn"
    /\ \E e \in Events({"dimension"}) :
          /\ calls[e][2] = 71
          /\ Len(calls[e][3]) = 2
          /\ calls[e][3][1].name = "Valid"
    /\ \E e \in Events({"definition"}) : calls[e][2] = 3

\* The part of a piece before its first '@', the whole piece without one.
BeforeAt(piece) ==
    LET at == {i \in 1..Len(piece) : piece[i] = "@"}
        first == CHOOSE i \in at : \A j \in at : i <= j
    IN  IF at = {} THEN piece ELSE SubSeq(piece, 1, first - 1)

C18_UserCreateOutcome ==
    (job = "users" /\ row # NoRow /\ row.len = 2) =>
       LET well_formed == /\ \E i \in 1..Len(row.email) : row.email[i] = "@"
                    /\ Trimmed(row.display_name) # <<>>
           requests == Events({"user_create"})
           finished == pc \in {"rows", "done"}
           status == result_row.creation_status
       IN  /\ requests # {} => well_formed
           /\ (well_formed /\ finished) => Cardinality(requests) = 1
           /\ (~well_formed) => (finished /\ requests = {} /\ StartsWith(status, "ERROR"))
           /\ \A e \in requests :
                 LET got_answer == calls[e][3] # 0
                     was_created == got_answer /\ calls[e][3] = 201
                     was_known == got_answer /\ calls[e][3] # 201
                               /\ calls[e][4] = "email_exist"
                 IN  /\ StartsWith(status, "SUCCESS") <=> was_created
                     /\ StartsWith(status, "EXISTS") <=> was_known
                     /\ StartsWith(status, "ERROR") <=> (~was_created /\ ~was_known)

\* A request got_answer 409 with the code email_exist was recorded as EXISTS.
C18_Witness ==
    /\ job = "users"
    /\ RowDone
    /\ \E e \in Events({"user_create"}) :
          calls[e][3] = 409 /\ calls[e][4] = "email_exist"
    /\ StartsWith(result_row.creation_status, "EXISTS")

\* ---- what a step does with the client
\* the step is a token request: it obtains a token or fails to
TokenRequestStep == Authenticate

\* the status of a logged request of create_projects.py or create_users.py
RequestStatus(event) ==
    IF event[1] \in {"project_lookup", "project_create", "user_check",
                     "members_add", "user_create"} THEN event[3]
    ELSE IF event[1] = "members" THEN event[2]
    ELSE 0

\* the step sends an API request: it is one of the requests of the cache,
\* the export, the assignment job or the data-quality job, or it logs a
\* request of create_projects.py or create_users.py that was sent
ApiRequestStep ==
    \/ LoadPageOk \/ LoadPageError \/ ExportPage \/ ExportUsersPage
    \/ AssignGetAsset \/ AssignValidate \/ AssignProbeColumnInfo
    \/ AssignProbeColumn \/ AssignBulkPatch
    \/ (DqPreloadDimensions \/ DqDimension) /\ ~dimensions_cache.loaded
    \/ DqDefinitionsPage \/ DqGetAsset \/ DqValidate \/ DqCreateDefinition
    \/ DqCreateRule
    \/ /\ job \in {"projects", "users"}
       /\ Len(calls') = Len(calls) + 1
       /\ RequestStatus(calls'[Len(calls')]) # 0

\* C19: in one run of a job a token is requested only when a request of the
\* client is due, an API request is sent only by a client that holds a
\* token, and after the process has obtained a token it makes no further
\* token request.
C19_AuthLazyOnce ==
    [][/\ TokenRequestStep => RequestPending
       /\ ApiRequestStep => authenticated
       /\ tokens >= 1 => ~TokenRequestStep]_vars

\* C20: after a token request has failed the job reads no further row,
\* sends no further request and records no row-level status.
C20_AuthFailureFatal ==
    [][auth_failed =>
          /\ row_num' = row_num
          /\ results_data' = results_data
          /\ ~ApiRequestStep
          /\ ~TokenRequestStep]_vars

\* ---- the batch jobs and their rows
BatchJob == job \in {"assign", "dq", "projects", "users"}
\* the number of columns a row must have to be processed
RequiredColumns ==
    IF job = "assign" THEN 9
    ELSE IF job = "dq" THEN 7
    ELSE IF job = "projects" THEN 3
    ELSE 2
FullRow(r) == r # NoRow /\ r.len >= RequiredColumns
Recorded(n) == \E i \in 1..Len(results_data) : results_data[i] = n
BetweenRows == pc \in {"rows", "done"}

\* C21: in every batch job the result records are, in input order, one for
\* each row read that has the required number of columns: a short row adds
\* no record, any other row adds exactly one whatever the platform answers,
\* and no row ends the run.
C21_OneResultPerFullRow ==
    /\ [](BatchJob =>
            /\ row_num >= 1 => pc # "aborted"
            /\ \A i \in 1..Len(results_data) :
                  /\ results_data[i] \in 1..row_num
                  /\ \A j \in 1..Len(results_data) :
                        i < j => results_data[i] < results_data[j]
            /\ (BetweenRows /\ row # NoRow) => (Recorded(row_num) <=> FullRow(row))
            /\ (~BetweenRows /\ row_num >= 1) =>
                  (FullRow(row) /\ ~Recorded(row_num)))
    /\ [][BatchJob =>
            /\ results_data' # results_data =>
                  /\ results_data' = Append(results_data, row_num')
                  /\ FullRow(row')
            /\ row_num' # row_num =>
                  /\ row_num' = row_num + 1
                  /\ BetweenRows
                  /\ FullRow(row) => Recorded(row_num)]_vars

\* Both rows of a run are recorded, the second after its project lookup and
\* its project creation were refused.
C21_Witness ==
    /\ job = "projects"
    /\ pc = "rows"
    /\ row_num = 2
    /\ FullRow(row)
    /\ results_data = <<1, 2>>
    /\ \E e \in Events({"project_lookup"}) : calls[e][3] = 500
    /\ \E e \in Events({"project_create"}) : calls[e][3] = 400

\* the endpoints that change the platform, by the event that logs a call
MutatingCalls == {"bulk_patch", "definition_create", "rule_create",
                  "project_create", "members_add", "user_create"}

\* C22: no operation is retried: while a row is processed each mutating
\* endpoint is called at most once for it, whatever status the call gets.
C22_NoRetry ==
    \A kind \in MutatingCalls : Cardinality(Events({kind})) <= 1

\* A row ended after its one bulk patch was answered 500.
C22_Witness ==
    /\ job = "assign"
    /\ RowDone
    /\ Cardinality(Events({"bulk_patch"})) = 1
    /\ \E e \in Events({"bulk_patch"}) : calls[e][3] = 500

\* the settings the selected environment and authentication mode require
RequiredSettingsPresent(c) ==
    /\ c.cpd_host
    /\ c.env_type = "SAAS" => c.api_key
    /\ (c.env_type # "SAAS" /\ c.auth_type = "PASSWORD") =>
          (c.username /\ c.password)
    /\ (c.env_type # "SAAS" /\ c.auth_type # "PASSWORD") =>
          (c.username /\ c.api_key)
SettingMissing ==
    \/ ~RequiredSettingsPresent(settings)
    \/ job \in {"assign", "dq"} /\ ~PROJECT_ID

\* C23: a job started without a required setting (the host, the credentials
\* of the selected mode, or the project id of the column-assignment and
\* data-quality jobs) aborts at startup and sends no request at all.
C23_MissingSettingFatal ==
    /\ [](SettingMissing => pc \in {"start", "export_main", "aborted"})
    /\ [][SettingMissing => ~ApiRequestStep /\ ~TokenRequestStep]_vars

\* ---- what flatten_record is to return
\* the leaves of a value with the keys on the way to each, a one-element
\* list standing for its element and the entries under the given keys left
\* out; each leaf with its text
LeafText(obj) ==
    IF obj.t = "list"
    THEN [i \in 1..(2 * Len(obj.items) - 1) |->
             IF i % 2 = 0 THEN "; "
             ELSE IF obj.items[(i + 1) \div 2].val.t = "None" THEN "None"
             ELSE ToString(obj.items[(i + 1) \div 2].val.n)]
    ELSE IF obj.t = "None" THEN <<>>
    ELSE <<ToString(obj.n)>>
RECURSIVE Leaves(_, _, _)
Leaves(obj, path, left_out) ==
    IF obj.t = "dict"
    THEN UNION {Leaves(obj.items[i].val, Append(path, obj.items[i].key),
                       left_out) :
                   i \in {j \in 1..Len(obj.items) :
                             obj.items[j].key \notin left_out}}
    ELSE IF obj.t = "list" /\ Len(obj.items) = 1
    THEN Leaves(obj.items[1].val, path, left_out)
    ELSE {<<path, LeafText(obj)>>}
DotJoined(path) ==
    [i \in 1..(2 * Len(path) - 1) |->
        IF i % 2 = 0 THEN "." ELSE path[(i + 1) \div 2]]
Columns(record, left_out) ==
    {<<DotJoined(leaf[1]), leaf[2]>> : leaf \in Leaves(record, <<>>, left_out)}
AsPairs(f) == {<<k, f[k]>> : k \in DOMAIN f}
Flattened == job = "parse" /\ pc = "returned" /\ last_call[1] = "flatten_record"

\* C24 as stated: flatten_record gives every value nested in mappings the
\* dot-joined path of its keys as column, a one-element list standing for
\* its element; the column holds '' for None and the empty list, the
\* '; '-joined elements for a longer list and the string form otherwise.
C24_FlattenRecord ==
    Flattened => AsPairs(last_call[3]) = Columns(last_call[2], {})

\* C24 amended: the same, except that an entry whose key is _score is left
\* out of the result at every level of the record.
C24_FlattenRecordSkipsScore ==
    Flattened => AsPairs(last_call[3]) = Columns(last_call[2], {"_score"})

\* A record {a: [{b: None}], _score: [1, 2]} was flattened to {a.b: ''}.
C24_Witness ==
    /\ Flattened
    /\ last_call[2] = DictOf(<<Entry("a", ListOf(<<DictOf(<<Entry("b", NoneValue)>>)>>)),
                               Entry("_score", ListOf(<<Num(1), Num(2)>>))>>)
    /\ AsPairs(last_call[3]) = {<<<<"a", ".", "b">>, <<>>>>}

\* ---- termination
Job == job \in {"assign", "dq", "projects", "users", "export", "export_users"}
Ended == pc \in {"done", "aborted"}

\* C25: every run of a job ends, whatever the platform answers, and the
\* paging loop of _load_artifacts is left after finitely many requests;
\* the paging positions only move forward and the rows are read once each,
\* in order.
C25_JobsTerminate ==
    /\ Job ~> Ended
    /\ (pc = "load") ~> (pc # "load")
    /\ [][/\ row_num' \in {row_num, row_num + 1}
          /\ ~TokenRequestStep =>
                /\ (pc = "load" /\ pc' = "load") => offset' > offset
                /\ (pc = "export_page" /\ pc' = "export_page")
                      => offset' > offset
                /\ (pc = "users_page" /\ pc' = "users_page")
                      => offset' > offset
                /\ (pc = "dq_defs_page" /\ pc' = "dq_defs_page")
                      => start_token' > start_token]_vars

\* The user export has ended after a full page and a short one.
C25_Witness ==
    /\ job = "export_users"
    /\ pc = "done"
    /\ last_call = <<"users", users_batch_size, 200>>
    /\ \E e \in Events({"export_users_to_csv"}) : Len(calls[e][2]) = 3

\* ---- existing column metadata
\* C26: a bulk patch never replaces metadata that is on the server: when
\* column_info exists no operation adds at /entity/column_info, and when the
\* column of the row exists in it no operation adds at
\* /entity/column_info/<column>, whatever the probe requests answered.
C26_ExistingMetadataKept ==
    job = "assign" =>
      \A i \in Events({"bulk_patch"}) :
         LET ops == calls[i][2]
             info == calls[i][4]
             column == row.column_name
         IN  \A k \in 1..Len(ops) :
                /\ info.exists => Len(ops[k].path) # 2
                /\ column \in info.columns =>
                      ~(Len(ops[k].path) = 3 /\ ops[k].path[3] = column)

\* ---- definitions are created once
\* C27: a definition-create request for a name is sent only when the server
\* holds no definition of that name at that moment, and the requests for
\* the list of definitions change the definitions cache only by storing the
\* complete list of the server: a failed one leaves it as it was.
C27_CreateOnlyWhenAbsent ==
    /\ [](job = "dq" =>
            \A i \in Events({"definition_create"}) :
               \A k \in 1..Len(calls[i][4]) :
                  calls[i][4][k].name # calls[i][2])
    /\ [][(pc = "dq_defs_page" /\ definitions_cache' # definitions_cache)
            => definitions_cache' = Loaded(srv_definitions)]_vars

\* ---- facet results and the patch
FacetColumns ==
    {"description_result", "term_result", "classification_result",
     "data_class_result"}

\* C28: in the result of a finished row of the column-assignment job a facet
\* is SUCCESS only if the asset update status of the row is SUCCESS.
C28_FacetSuccessNeedsPatch ==
    (job = "assign" /\ RowDone) =>
       \A f \in FacetColumns :
          result_row[f] = "SUCCESS" => result_row.asset_update_status = "SUCCESS"

\* ---- the summary of the user creation
Created(status) == StartsWith(status, "SUCCESS")

\* C29: a row of the user creation has a SUCCESS status exactly when its
\* create request answered 201, and the summary printed at the end counts
\* the rows of results_data: the created ones, the existing ones and the
\* failed ones, which together are all rows processed.
C29_SummaryPartitions ==
    /\ (job = "users" /\ RowDone) =>
          (Created(result_row.creation_status)
             <=> \E i \in Events({"user_create"}) : calls[i][3] = 201)
    /\ (job = "users" /\ pc = "done") =>
          LET rows == 1..Len(user_results)
              status(i) == user_results[i].creation_status
          IN  /\ summary.total_rows = Len(user_results)
              /\ summary.successful_creations =
                    Cardinality({i \in rows : Created(status(i))})
              /\ summary.existing_users =
                    Cardinality({i \in rows : IsExisting(status(i))})
              /\ summary.failed_creations =
                    Cardinality({i \in rows : IsFailed(status(i))})
              /\ summary.successful_creations + summary.existing_users
                    + summary.failed_creations = summary.total_rows

\* ---- the payload of the membership-add request
\* C30: the payload of a membership-add request names no user twice and
\* names no user who is an active member of the project when the row asks
\* for the members, whatever that request answered.
C30_PayloadDistinctNonMembers ==
    job = "projects" =>
      \A k \in Events({"members_add"}) :
         LET payload == calls[k][2]
         IN  /\ \A p, q \in 1..Len(payload) :
                   p # q => payload[p] # payload[q]
             /\ \A i \in Events({"members"}) :
                   \A p \in 1..Len(payload) : payload[p] \notin calls[i][3]

====
